---- MODULE Spec2Model ----
(***************************************************************************)
(* ChatEmbeddingDB: the chat embedding record service                      *)
(* (services/chatEmbeddingService.js), its Joi validation middleware       *)
(* (middleware/validation.js) and its Express routes                       *)
(* (routes/chatEmbeddings.js) over an AstraDB collection.                  *)
(*                                                                         *)
(* The repository holds two copies of the service and of the schemas:     *)
(* version 1 stores the feature groups and updates by whole-record         *)
(* replace (findOne, replaceOne, findOne); version 2 has no feature groups *)
(* and updates by field merge (findOneAndUpdate with $set).  A run of the  *)
(* model is a run of one of the two, chosen at start (variable version).   *)
(*                                                                         *)
(* Representation.  A JavaScript object is a function from its keys to     *)
(* their values; a key whose value is undefined is a key that is absent.   *)
(* A numeric array is [len |-> n, fill |-> k], the array Array(n).fill(k)  *)
(* of the tests.  An ISO-8601 instant is the millisecond count it denotes  *)
(* (toISOString is order-preserving).  An error is its message string.     *)
(***************************************************************************)
EXTENDS Integers, Sequences, FiniteSets, TLC

VARIABLES
    version,   \* which copy of the service and schemas runs: 1 or 2
    store,     \* the collection: _id -> stored document, or NoDoc
    nextId,    \* number of identifiers uuidv4() has handed out
    clock,     \* the millisecond clock read by new Date()
    req,       \* per connection: the HTTP request in progress
    last,      \* the request answered by the latest step, with its response; Idle if none
    born,      \* history: _id -> the create input and the document as inserted, or NoDoc
    conn       \* the memoized connection: the service's and the gateway's fields

vars == <<version, store, nextId, clock, req, last, born, conn>>

-----------------------------------------------------------------------------
(* Bounds of the model *)

MaxDocs == 1     \* identifiers uuidv4() can hand out
MaxClock == 1    \* last millisecond of the run
MaxStore == 3    \* documents the batch runs insert by batches of less than 50

(* Program constants *)

PrimaryDim == 768
LightweightDim == 384
FeatureVectorDim == 90
TemporalFeaturesDim == 25
EmotionalFeaturesDim == 20
SemanticFeaturesDim == 30
UserFeaturesDim == 15
MaxMessageLen == 10000
MaxContextLen == 2000
MaxHour == 23
MaxLimit == 100
DefaultSimilarLimit == 10
MaxDay == 6
MaxBatch == 50
SevenDaysMs == 604800000

Procs == {1, 2}    \* two concurrent HTTP requests
Ids == 1..MaxDocs
UnusedId == 0    \* an identifier uuidv4() never hands out
NoDoc == [absent |-> TRUE]
EmptyObj == <<>>

Has(o, k) == k \in DOMAIN o

-----------------------------------------------------------------------------
(* Schema contract: middleware/validation.js *)

MessageTypes == {"user_message", "ai_response", "system_message"}
EmotionNames == {"joy", "sadness", "anger", "fear", "surprise", "disgust",
                 "anticipation", "trust"}
UuidStrings == {"u1", "u2", "e1", "e2", "s1", "s2"}

FeatureFields == {"feature_vector", "temporal_features", "emotional_features",
                  "semantic_features", "user_features",
                  "feature_completeness", "confidence_score"}

IdentityFields == {"user_id", "entry_id", "session_id"}

UpdateKeysV2 == {"message_content", "message_type", "conversation_context",
                 "primary_embedding", "lightweight_embedding", "text_length",
                 "processing_time_ms", "model_version", "semantic_tags",
                 "emotion_context", "entities_mentioned", "temporal_context"}

OptionalFields == {"conversation_context", "semantic_tags", "emotion_context",
                   "entities_mentioned"}

\* chatEmbeddingSchema: every key but four is required()
chatEmbeddingSchema(v) ==
    LET keys == IdentityFields \cup UpdateKeysV2
                  \cup (IF v = 1 THEN FeatureFields ELSE {})
    IN  [keys |-> keys, required |-> keys \ OptionalFields]

\* updateChatEmbeddingSchema: the same constraints, every key optional(),
\* and no user_id, entry_id or session_id key
updateChatEmbeddingSchema(v) ==
    [keys |-> UpdateKeysV2 \cup (IF v = 1 THEN FeatureFields ELSE {}),
     required |-> {}]

\* similaritySearchSchema
similaritySearchSchema ==
    [keys |-> {"primary_embedding", "limit", "filters"},
     required |-> {"primary_embedding"}]

VectorDim(k) ==
    CASE k = "primary_embedding" -> PrimaryDim
      [] k = "lightweight_embedding" -> LightweightDim
      [] k = "feature_vector" -> FeatureVectorDim
      [] k = "temporal_features" -> TemporalFeaturesDim
      [] k = "emotional_features" -> EmotionalFeaturesDim
      [] k = "semantic_features" -> SemanticFeaturesDim
      [] k = "user_features" -> UserFeaturesDim

VectorFields == {"primary_embedding", "lightweight_embedding", "feature_vector",
                 "temporal_features", "emotional_features",
                 "semantic_features", "user_features"}

InUnit(x) == x >= 0 /\ x <= 1

emotionSchemaErrors(e) ==
    {<<"emotion_context.emotions." \o n, "number.range">> :
        n \in {m \in DOMAIN e \cap EmotionNames : ~InUnit(e[m])}}

emotionContextSchemaErrors(c) ==
    {<<"emotion_context." \o k, "any.required">> :
        k \in {"dominant_emotion", "intensity", "emotions"} \ DOMAIN c}
    \cup (IF Has(c, "dominant_emotion") /\ c.dominant_emotion \notin EmotionNames
          THEN {<<"emotion_context.dominant_emotion", "any.only">>} ELSE {})
    \cup (IF Has(c, "intensity") /\ ~InUnit(c.intensity)
          THEN {<<"emotion_context.intensity", "number.range">>} ELSE {})
    \cup (IF Has(c, "emotions") THEN emotionSchemaErrors(c.emotions) ELSE {})

temporalContextSchemaErrors(c) ==
    {<<"temporal_context." \o k, "any.required">> :
        k \in {"hour_of_day", "day_of_week", "is_weekend"} \ DOMAIN c}
    \cup (IF Has(c, "hour_of_day") /\ ~(c.hour_of_day \in 0..MaxHour)
          THEN {<<"temporal_context.hour_of_day", "number.range">>} ELSE {})
    \cup (IF Has(c, "day_of_week") /\ ~(c.day_of_week \in 0..MaxDay)
          THEN {<<"temporal_context.day_of_week", "number.range">>} ELSE {})

\* the filters object of similaritySearchSchema
filtersSchemaErrors(f) ==
    {<<"filters." \o k, "string.guid">> :
        k \in {j \in DOMAIN f \cap {"user_id", "session_id"} : f[j] \notin UuidStrings}}
    \cup (IF Has(f, "message_type") /\ f.message_type \notin MessageTypes
          THEN {<<"filters.message_type", "any.only">>} ELSE {})
    \cup (IF Has(f, "emotion_filter")
             /\ Has(f.emotion_filter, "dominant_emotion")
             /\ f.emotion_filter.dominant_emotion \notin EmotionNames
          THEN {<<"filters.emotion_filter.dominant_emotion", "any.only">>} ELSE {})
    \cup (IF Has(f, "emotion_filter")
             /\ Has(f.emotion_filter, "min_intensity")
             /\ ~InUnit(f.emotion_filter.min_intensity)
          THEN {<<"filters.emotion_filter.min_intensity", "number.range">>} ELSE {})

\* the violations of one present key's value against its rule
FieldErrors(k, x) ==
    CASE k \in IdentityFields ->
            IF x \in UuidStrings THEN {} ELSE {<<k, "string.guid">>}
      [] k = "message_content" ->
            IF Len(x) >= 1 /\ Len(x) <= MaxMessageLen THEN {}
            ELSE {<<k, "string.length">>}
      [] k = "conversation_context" ->
            IF Len(x) >= 1 /\ Len(x) <= MaxContextLen THEN {}
            ELSE {<<k, "string.length">>}
      [] k = "message_type" ->
            IF x \in MessageTypes THEN {} ELSE {<<k, "any.only">>}
      [] k \in VectorFields ->
            IF x.len = VectorDim(k) THEN {} ELSE {<<k, "array.length">>}
      [] k \in {"text_length", "processing_time_ms"} ->
            IF x >= 0 THEN {} ELSE {<<k, "number.min">>}
      [] k \in {"feature_completeness", "confidence_score"} ->
            IF InUnit(x) THEN {} ELSE {<<k, "number.range">>}
      [] k = "model_version" ->
            IF Len(x) >= 1 THEN {} ELSE {<<k, "string.empty">>}
      [] k = "emotion_context" -> emotionContextSchemaErrors(x)
      [] k = "temporal_context" -> temporalContextSchemaErrors(x)
      [] k = "limit" ->
            IF x >= 1 /\ x <= MaxLimit THEN {} ELSE {<<k, "number.range">>}
      [] k = "filters" -> filtersSchemaErrors(x)
      [] OTHER -> {}

\* batchSchema: embeddings, required, an array of 1 to 50 items of
\* chatEmbeddingSchema
batchSchema(v) ==
    [keys |-> {"embeddings"}, required |-> {"embeddings"},
     items |-> chatEmbeddingSchema(v)]

\* the violations of an object against the keys of its schema
ObjectErrors(schema, body) ==
    {<<k, "any.required">> : k \in schema.required \ DOMAIN body}
    \cup UNION {FieldErrors(k, body[k]) : k \in schema.keys \cap DOMAIN body}

\* the violations of the embeddings array: its length, and each item
\* against the item schema (a boolean stripUnknown does not strip array
\* items)
ArrayErrorsMutFirstItem(itemSchema, arr) ==
    (IF Len(arr) < 1 THEN {<<"embeddings", "array.min">>} ELSE {})
    \cup (IF Len(arr) > MaxBatch THEN {<<"embeddings", "array.max">>} ELSE {})
    \cup UNION {{<<"embeddings[" \o ToString(i - 1) \o "]." \o e[1], e[2]>> :
                    e \in ObjectErrors(itemSchema, arr[i])} :
                        i \in DOMAIN arr \cap {1}}

ArrayErrors(itemSchema, arr) ==
    (IF Len(arr) < 1 THEN {<<"embeddings", "array.min">>} ELSE {})
    \cup (IF Len(arr) > MaxBatch THEN {<<"embeddings", "array.max">>} ELSE {})
    \cup UNION {{<<"embeddings[" \o ToString(i - 1) \o "]." \o e[1], e[2]>> :
                    e \in ObjectErrors(itemSchema, arr[i])} : i \in DOMAIN arr}

\* schema.validate(body, {abortEarly: false, allowUnknown: false,
\* stripUnknown: true}).error: one detail per violation, none for unknown keys
SchemaErrors(schema, body) ==
    ObjectErrors(schema, body)
    \cup (IF Has(schema, "items") /\ Has(body, "embeddings")
          THEN ArrayErrors(schema.items, body.embeddings) ELSE {})

\* the middleware validate(schema): on error it answers 400 and does not call
\* next(); otherwise it calls next() with req.body as it was received (the
\* validated value that Joi returns is not read)
validateMutLengthIgnored(schema, body) ==
    IF {e \in SchemaErrors(schema, body) : e[2] # "array.length"} # {}
    THEN [kind |-> "json", status |-> 400, success |-> FALSE,
          error |-> "Validation Error",
          details |-> SchemaErrors(schema, body)]
    ELSE [kind |-> "next"]

validateMutFirstOnly(schema, body) ==
    IF SchemaErrors(schema, body) # {}
    THEN [kind |-> "json", status |-> 400, success |-> FALSE,
          error |-> "Validation Error",
          details |-> {CHOOSE e \in SchemaErrors(schema, body) : TRUE}]
    ELSE [kind |-> "next"]

validate(schema, body) ==
    IF SchemaErrors(schema, body) # {}
    THEN [kind |-> "json", status |-> 400, success |-> FALSE,
          error |-> "Validation Error",
          details |-> SchemaErrors(schema, body)]
    ELSE [kind |-> "next"]

-----------------------------------------------------------------------------
(* Request bodies the model sends *)

Vec(n, k) == [len |-> n, fill |-> k]

\* the validChatEmbedding of tests/api.test.js
BodyX ==
    [user_id |-> "u1", entry_id |-> "e1", message_content |-> "hello",
     message_type |-> "user_message", session_id |-> "s1",
     conversation_context |-> "exam",
     primary_embedding |-> Vec(PrimaryDim, 1),
     lightweight_embedding |-> Vec(LightweightDim, 2),
     text_length |-> 5, processing_time_ms |-> 125, model_version |-> "mpnet",
     semantic_tags |-> <<"anxiety">>,
     emotion_context |-> [dominant_emotion |-> "fear", intensity |-> 1,
                          emotions |-> [fear |-> 1, joy |-> 0]],
     entities_mentioned |-> [people |-> <<>>, locations |-> <<"school">>,
                             organizations |-> <<>>],
     feature_vector |-> Vec(FeatureVectorDim, 3),
     temporal_features |-> Vec(TemporalFeaturesDim, 4),
     emotional_features |-> Vec(EmotionalFeaturesDim, 5),
     semantic_features |-> Vec(SemanticFeaturesDim, 6),
     user_features |-> Vec(UserFeaturesDim, 7),
     feature_completeness |-> 1, confidence_score |-> 0,
     temporal_context |-> [hour_of_day |-> 14, day_of_week |-> 1,
                           is_weekend |-> FALSE]]

\* a second valid record, of another user and session, without optional keys
BodyY ==
    [k \in DOMAIN BodyX \ OptionalFields |->
        CASE k = "user_id" -> "u2"
          [] k = "entry_id" -> "e2"
          [] k = "session_id" -> "s2"
          [] k = "message_content" -> "reply"
          [] k = "message_type" -> "ai_response"
          [] k = "primary_embedding" -> Vec(PrimaryDim, 8)
          [] OTHER -> BodyX[k]]

\* the partial update of the 'should update embedding' test
BodyTags == [semantic_tags |-> <<"anxiety", "updated">>]

\* BodyX with a caller-chosen id, _id, created_at and timestamp
BodyCaller ==
    BodyX @@ [id |-> UnusedId, _id |-> UnusedId, created_at |-> 0, timestamp |-> 0]

\* wrong dimensions: 767, 769 and the 500 of the 'Validation' test
BadDims == {PrimaryDim - 1, PrimaryDim + 1, 500}

BodyBadDim(n) == [BodyX EXCEPT !.primary_embedding = Vec(n, 1)]

\* the incompleteData of the 'should reject missing required fields' test
BodyIncomplete == [user_id |-> "u1", message_content |-> "hello"]

\* BodyX with five violations: no user_id, 769 dimensions, a message type
\* and an intensity and an hour out of range
BodyMulti ==
    [k \in DOMAIN BodyX \ {"user_id"} |->
        CASE k = "primary_embedding" -> Vec(PrimaryDim + 1, 1)
          [] k = "message_type" -> "note"
          [] k = "emotion_context" -> [BodyX.emotion_context EXCEPT !.intensity = 2]
          [] k = "temporal_context" ->
                [BodyX.temporal_context EXCEPT !.hour_of_day = MaxHour + 1]
          [] OTHER -> BodyX[k]]

\* BodyX with a key the schema does not have
BodyExtra == BodyX @@ [client_ref |-> "c1"]

\* BodyX with a key the schema does not have in each nested object
BodyNested ==
    [BodyX EXCEPT
        !.emotion_context =
            [@ EXCEPT !.emotions = @ @@ [boredom |-> 1]] @@ [note |-> "n1"],
        !.entities_mentioned = @ @@ [products |-> <<"p1">>],
        !.temporal_context = @ @@ [timezone |-> "UTC"]]

\* BodyX without semantic_tags, with one of the three entity lists and one
\* of the eight emotion scores
BodyPartial ==
    [k \in DOMAIN BodyX \ {"semantic_tags"} |->
        CASE k = "entities_mentioned" -> [people |-> <<"ann">>]
          [] k = "emotion_context" ->
                [BodyX.emotion_context EXCEPT !.emotions = [fear |-> 1]]
          [] OTHER -> BodyX[k]]

\* BodyX without any of its optional keys but emotion_context
BodyBare ==
    [k \in DOMAIN BodyX \ (OptionalFields \ {"emotion_context"}) |-> BodyX[k]]

IntakeBodies == {BodyMulti, BodyExtra, BodyNested, BodyPartial, BodyBare}

\* batches: of no item, of one and of two valid items, of 50 and of 51,
\* of a valid item next to one with 769 dimensions, of a valid item next
\* to one without user_id, and a body without embeddings
Repeat(x, n) == [i \in 1..n |-> x]

BatchOf(items) == [embeddings |-> items]

BatchSize(body) == IF Has(body, "embeddings") THEN Len(body.embeddings) ELSE 0

ValidBatches ==
    {BatchOf(<<BodyX>>), BatchOf(<<BodyY, BodyX>>),
     BatchOf(Repeat(BodyX, MaxBatch))}

InvalidBatches ==
    {BatchOf(<<>>), BatchOf(Repeat(BodyX, MaxBatch + 1)),
     BatchOf(<<BodyX, BodyBadDim(PrimaryDim + 1)>>),
     BatchOf(<<BodyIncomplete, BodyY>>), EmptyObj}

BatchBodies == ValidBatches \cup InvalidBatches

\* similarity searches: a bare query vector, the search of the 'should find
\* similar chat embeddings' test (a limit and a user filter), and the 512
\* dimensions of the 'wrong vector dimensions' test
SearchPlain == [primary_embedding |-> Vec(PrimaryDim, 1)]

SearchUser ==
    [primary_embedding |-> Vec(PrimaryDim, 8), limit |-> 1,
     filters |-> [user_id |-> "u1"]]

SearchBadDim == [primary_embedding |-> Vec(512, 1), limit |-> 5]

SimilarityBodies == {SearchPlain, SearchUser, SearchBadDim}

ValidBodies == {BodyX, BodyY}
InvalidBodies == {BodyBadDim(n) : n \in BadDims} \cup {BodyIncomplete}
CreateBodies == ValidBodies \cup InvalidBodies
UpdateBodies == {BodyX, BodyTags, BodyBadDim(PrimaryDim + 1)}

-----------------------------------------------------------------------------
(* Embedding record service: services/chatEmbeddingService.js *)

Pick(o, keys) == [k \in keys \cap DOMAIN o |-> o[k]]

\* the keys a document copies unchanged from the request body
CopiedKeys(v) ==
    chatEmbeddingSchema(v).keys
        \ {"primary_embedding", "semantic_tags", "entities_mentioned"}

DefaultEntities == [people |-> <<>>, locations |-> <<>>, organizations |-> <<>>]

\* the part of a document that create, createBatch and replace build alike:
\* plain copies, primary_embedding under $vector, x || default for the two
\* defaulted keys
DocumentBody(v, data) ==
    Pick(data, CopiedKeys(v))
    @@ (IF Has(data, "primary_embedding")
        THEN "$vector" :> data.primary_embedding ELSE EmptyObj)
    @@ ("semantic_tags" :>
            (IF Has(data, "semantic_tags") THEN data.semantic_tags ELSE <<>>))
    @@ ("entities_mentioned" :>
            (IF Has(data, "entities_mentioned") THEN data.entities_mentioned
             ELSE DefaultEntities))

\* createChatEmbedding's document; t1, t2, t3 are its three readings of
\* new Date(), in program order
createDocument(v, id, data, t1, t2, t3) ==
    ("_id" :> id) @@ ("timestamp" :> t1) @@ ("created_at" :> t2)
    @@ ("updated_at" :> t3) @@ DocumentBody(v, data)

\* updateChatEmbedding, version 1: the replacementDocument; t1 and t2 are its
\* two readings of new Date()
replacementDocumentMutCreatedAt(v, id, data, existingEntry, t1, t2) ==
    ("_id" :> id)
    @@ ("timestamp" :> (IF Has(data, "timestamp") THEN data.timestamp ELSE t1))
    @@ ("created_at" :> t2)
    @@ ("updated_at" :> t2) @@ DocumentBody(v, data)

replacementDocument(v, id, data, existingEntry, t1, t2) ==
    ("_id" :> id)
    @@ ("timestamp" :> (IF Has(data, "timestamp") THEN data.timestamp ELSE t1))
    @@ (IF Has(existingEntry, "created_at")
        THEN "created_at" :> existingEntry.created_at ELSE EmptyObj)
    @@ ("updated_at" :> t2) @@ DocumentBody(v, data)

\* updateChatEmbedding, version 2: the sparse updateDoc handed to $set
updateDoc(data, t) ==
    ("updated_at" :> t)
    @@ (IF Has(data, "primary_embedding")
        THEN "$vector" :> data.primary_embedding ELSE EmptyObj)
    @@ Pick(data, UpdateKeysV2 \ {"primary_embedding"})

\* the public record shape that getById, update and findSimilar return
RecordKeys(v) ==
    (chatEmbeddingSchema(v).keys \ {"primary_embedding"})
        \cup {"timestamp", "created_at", "updated_at"}

toRecord(v, result) ==
    ("id" :> result["_id"])
    @@ (IF Has(result, "$vector")
        THEN "primary_embedding" :> result["$vector"] ELSE EmptyObj)
    @@ Pick(result, RecordKeys(v))

\* createChatEmbeddingsBatch: the documents, with identifiers after first;
\* the 3n readings of new Date() are taken in order, those after the first
\* cut of them one millisecond later than now
batchDocumentsMutSameId(v, first, items, now, cut) ==
    LET Reading(r) == IF r <= cut THEN now ELSE now + 1
    IN  [a \in DOMAIN items |->
            createDocument(v, first + 1, items[a], Reading(3 * (a - 1) + 1),
                           Reading(3 * (a - 1) + 2), Reading(3 * (a - 1) + 3))]

batchDocuments(v, first, items, now, cut) ==
    LET Reading(r) == IF r <= cut THEN now ELSE now + 1
    IN  [a \in DOMAIN items |->
            createDocument(v, first + a, items[a], Reading(3 * (a - 1) + 1),
                           Reading(3 * (a - 1) + 2), Reading(3 * (a - 1) + 3))]

\* createChatEmbeddingsBatch: what it returns for the inserted documents
batchResult(insertedCount, insertedIds, documents) ==
    [inserted_count |-> insertedCount,
     inserted_ids |-> insertedIds,
     documents |->
        [a \in DOMAIN documents |->
            ("id" :> documents[a]["_id"])
            @@ Pick(documents[a], {"user_id", "entry_id", "message_content",
                                   "message_type", "timestamp", "session_id"})]]

\* findSimilarChatEmbeddings: the query built from the filters; `if (x)` is
\* JavaScript truthiness (a key that is present, not "" and not 0)
similarQuery(filters) ==
    [k \in {j \in {"user_id", "session_id", "message_type"} :
                Has(filters, j) /\ filters[j] # ""} |-> filters[k]]
    @@ (IF Has(filters, "date_range")
        THEN "timestamp" :>
               [b \in {c \in {"$gte", "$lte"} :
                          Has(filters.date_range, IF c = "$gte" THEN "start" ELSE "end")}
                  |-> filters.date_range[IF b = "$gte" THEN "start" ELSE "end"]]
        ELSE EmptyObj)
    @@ (IF Has(filters, "emotion_filter")
           /\ Has(filters.emotion_filter, "dominant_emotion")
           /\ filters.emotion_filter.dominant_emotion # ""
        THEN "emotion_context.dominant_emotion" :>
               filters.emotion_filter.dominant_emotion
        ELSE EmptyObj)
    @@ (IF Has(filters, "emotion_filter")
           /\ Has(filters.emotion_filter, "min_intensity")
           /\ filters.emotion_filter.min_intensity # 0
        THEN "emotion_context.intensity" :>
               ("$gte" :> filters.emotion_filter.min_intensity)
        ELSE EmptyObj)
    @@ (IF Has(filters, "semantic_tags") /\ Len(filters.semantic_tags) > 0
        THEN "semantic_tags" :> ("$in" :> filters.semantic_tags)
        ELSE EmptyObj)

NotFoundMessage == "Chat embedding not found"

\* catch (error) { throw new Error(`Failed to ...: ${error.message}`) }
Rethrow(prefix, message) == prefix \o ": " \o message

-----------------------------------------------------------------------------
(* Document store gateway: the collection of @datastax/astra-db-ts *)

Exists(id) == store[id] # NoDoc

\* a document satisfies a filter: equality on plain keys, $gte and $lte on
\* timestamp (an empty range object equals no timestamp), $gte on the
\* nested intensity, $in on the tag list
Range(seq) == {seq[i] : i \in DOMAIN seq}

Matches(doc, query) ==
    /\ \A k \in DOMAIN query \cap {"user_id", "session_id", "message_type"} :
          Has(doc, k) /\ doc[k] = query[k]
    /\ Has(query, "timestamp") =>
          /\ DOMAIN query.timestamp # {}
          /\ Has(query.timestamp, "$gte") => doc.timestamp >= query.timestamp["$gte"]
          /\ Has(query.timestamp, "$lte") => doc.timestamp <= query.timestamp["$lte"]
    /\ Has(query, "emotion_context.dominant_emotion") =>
          /\ Has(doc, "emotion_context")
          /\ doc.emotion_context.dominant_emotion
                = query["emotion_context.dominant_emotion"]
    /\ Has(query, "emotion_context.intensity") =>
          /\ Has(doc, "emotion_context")
          /\ doc.emotion_context.intensity
                >= query["emotion_context.intensity"]["$gte"]
    /\ Has(query, "semantic_tags") =>
          Range(doc.semantic_tags) \cap Range(query.semantic_tags["$in"]) # {}

\* the store's similarity score of a document for a query vector (its cosine
\* metric is the store's own; here 1 for the same vector, 0 otherwise)
Similarity(queryVector, doc) ==
    IF Has(doc, "$vector") /\ doc["$vector"] = queryVector THEN 1 ELSE 0

\* find(query, {sort: {$vector: q}, limit, includeSimilarity: true}): the
\* matching documents, by descending similarity, at most limit of them
vectorFind(st, query, queryVector, limit) ==
    LET hits == {i \in DOMAIN st : st[i] # NoDoc /\ Matches(st[i], query)}
        Before(i, j) ==
            \/ Similarity(queryVector, st[i]) > Similarity(queryVector, st[j])
            \/ /\ Similarity(queryVector, st[i]) = Similarity(queryVector, st[j])
               /\ i < j
        order == CHOOSE f \in [1..Cardinality(hits) -> hits] :
                    \A a, b \in 1..Cardinality(hits) : a < b => Before(f[a], f[b])
        n == IF limit < Cardinality(hits) THEN limit ELSE Cardinality(hits)
    IN  [a \in 1..n |->
            st[order[a]] @@ ("$similarity" :> Similarity(queryVector, st[order[a]]))]

\* deleteOne(filter): removes the document of that _id, if any
deleteOneMutAll(st, id) == [i \in DOMAIN st |-> NoDoc]

deleteOne(st, id) == [st EXCEPT ![id] = NoDoc]

\* insertMany(documents)
insertMany(st, documents) ==
    [i \in DOMAIN st |->
        IF \E a \in DOMAIN documents : documents[a]["_id"] = i
        THEN documents[CHOOSE a \in DOMAIN documents : documents[a]["_id"] = i]
        ELSE st[i]]

\* countDocuments(filter)
countDocuments(st, query) ==
    Cardinality({i \in DOMAIN st : st[i] # NoDoc /\ Matches(st[i], query)})

\* aggregate([{$group: {_id: '$message_type', count: {$sum: 1}}}]): one row
\* per value, null for the documents without the field
groupByMessageType(st) ==
    LET docs == {i \in DOMAIN st : st[i] # NoDoc}
        TypeOf(i) == IF Has(st[i], "message_type") THEN st[i].message_type
                     ELSE "null"
    IN  {[_id |-> t, count |-> Cardinality({i \in docs : TypeOf(i) = t})] :
            t \in {TypeOf(i) : i \in docs}}

\* sum of f over the finite set S
RECURSIVE SumOver(_, _)
SumOver(S, f) ==
    IF S = {} THEN 0
    ELSE LET x == CHOOSE y \in S : TRUE IN f[x] + SumOver(S \ {x}, f)

\* aggregate([{$group: {_id: null, $avg, $min, $max of processing_time_ms}}]):
\* no row for an empty collection, else one row; the average is kept as the
\* fraction sum / count; the three are null when no document has the field
groupProcessingTime(st) ==
    LET docs == {i \in DOMAIN st : st[i] # NoDoc}
        timed == {i \in docs : Has(st[i], "processing_time_ms")}
        ms == [i \in timed |-> st[i].processing_time_ms]
    IN  IF docs = {} THEN <<>>
        ELSE IF timed = {}
        THEN <<[_id |-> "null", avg_processing_time |-> "null",
                min_processing_time |-> "null", max_processing_time |-> "null"]>>
        ELSE <<[_id |-> "null",
                avg_processing_time |->
                    [sum |-> SumOver(timed, ms), count |-> Cardinality(timed)],
                min_processing_time |->
                    CHOOSE m \in {ms[i] : i \in timed} : \A i \in timed : m <= ms[i],
                max_processing_time |->
                    CHOOSE m \in {ms[i] : i \in timed} : \A i \in timed : m >= ms[i]]>>

\* replaceOne(filter, doc) without upsert: matches or does nothing
replaceOneMutUpsert(st, id, doc) == [st EXCEPT ![id] = doc]

replaceOne(st, id, doc) ==
    IF st[id] # NoDoc THEN [st EXCEPT ![id] = doc] ELSE st

\* findOneAndUpdate(filter, {$set: upd}) without upsert
findOneAndUpdate(st, id, upd) ==
    IF st[id] # NoDoc THEN [st EXCEPT ![id] = upd @@ st[id]] ELSE st

-----------------------------------------------------------------------------
(* Routes: routes/chatEmbeddings.js *)

NoResponse == [kind |-> "none"]

Ok(status, data) ==
    [kind |-> "json", status |-> status, success |-> TRUE, data |-> data]

\* the catch block of GET, PUT and DELETE /:id
RouteCatch(message) ==
    IF message = NotFoundMessage
    THEN [kind |-> "json", status |-> 404, success |-> FALSE,
          error |-> NotFoundMessage]
    ELSE [kind |-> "error_handler", error |-> message]

Request(op, pc, id, body) ==
    [op |-> op, pc |-> pc, id |-> id, body |-> body, existingEntry |-> NoDoc,
     document |-> NoDoc, calls |-> 0, wrote |-> FALSE, res |-> NoResponse]

Idle == Request("none", "idle", UnusedId, EmptyObj)

\* connection p takes the next request: it is idle, and so that the two
\* connections are not told apart, no connection before it is
Free(p) == req[p].pc = "idle" /\ \A q \in Procs : q < p => req[q].pc # "idle"

\* identifiers a client can name: handed-out ones and one never handed out
KnownIds == {UnusedId} \cup 1..nextId

\* new Date() read again in the same synchronous block: the same millisecond
\* or the next one
Later(t) == {t, t + 1} \cap 0..MaxClock

\* the answered request: what was asked, the store calls made, the response
Answered(r, calls, res) ==
    [r EXCEPT !.pc = "done", !.calls = calls, !.res = res,
              !.existingEntry = NoDoc, !.document = NoDoc]

\* validate(schema) on the request bodies of the model, tabulated per version
createChecked ==
    [v \in {1, 2} |->
        [body \in CreateBodies \cup {BodyCaller} \cup IntakeBodies |->
            validate(chatEmbeddingSchema(v), body)]]

updateChecked ==
    [v \in {1, 2} |->
        [body \in UpdateBodies \cup {BodyCaller} \cup IntakeBodies |->
            validate(updateChatEmbeddingSchema(v), body)]]

-----------------------------------------------------------------------------
(* Connection: ChatEmbeddingService.initialize and AstraDBConnection.connect *)

NoHandle == "null"
Handle == "chat_embeddings"

\* after the two constructors: this.collection = null in the service;
\* collection = null and isConnected = false in the gateway; provisions
\* counts the runs of connect-and-provision (createCollection calls)
Unconnected ==
    [collection |-> NoHandle, handle |-> NoHandle, isConnected |-> FALSE,
     provisions |-> 0]

\* connect() run to its end without another request in between: the
\* memoized handle if isConnected, else connect-and-provision
connect(c) ==
    IF c.isConnected THEN c
    ELSE [c EXCEPT !.handle = Handle, !.isConnected = TRUE,
                   !.provisions = @ + 1]

\* initialize() run to its end without another request in between
initialize(c) ==
    IF c.collection # NoHandle THEN c
    ELSE [connect(c) EXCEPT !.collection = connect(c).handle]

\* documents the collection of this run can hold
Capacity == Cardinality(DOMAIN store) - 1

-----------------------------------------------------------------------------
(* Initial state: an empty collection, no request in progress *)

Init ==
    /\ version \in {1, 2}
    /\ store = [i \in {UnusedId} \cup Ids |-> NoDoc]
    /\ nextId = 0
    /\ clock = 0
    /\ req = [p \in Procs |-> Idle]
    /\ last = Idle
    /\ born = [i \in {UnusedId} \cup Ids |-> NoDoc]
    /\ conn = Unconnected

\* time passes
Tick ==
    /\ clock < MaxClock
    /\ clock' = clock + 1
    /\ last' = Idle
    /\ UNCHANGED <<conn, version, store, nextId, req, born>>

\* POST /: validate(chatEmbeddingSchema), createChatEmbedding (build the
\* document, insertOne), 201
PostCreate(p, body) ==
    /\ Free(p)
    /\ LET r == Request("create", "done", UnusedId, body)
           checked == createChecked[version][body]
       IN  IF checked.kind = "json"
           THEN /\ last' = Answered(r, 0, checked)
                /\ UNCHANGED <<conn, version, store, nextId, clock, req, born>>
           ELSE /\ nextId < Capacity
                /\ \E t2 \in Later(clock) : \E t3 \in Later(t2) :
                     LET id == nextId + 1
                         document == createDocument(version, id, body, clock, t2, t3)
                     IN  /\ store' = [store EXCEPT ![document["_id"]] = document]
                         /\ born' = [born EXCEPT ![document["_id"]] =
                                        [input |-> body, doc |-> document]]
                         /\ nextId' = id
                         /\ clock' = t3
                         /\ last' = Answered([r EXCEPT !.id = id, !.wrote = TRUE], 1,
                                      Ok(201, ("id" :> document["_id"]) @@ document
                                                @@ ("insertedId" :> document["_id"])))
                         /\ conn' = initialize(conn)
                         /\ UNCHANGED <<version, req>>

\* the bundle findSimilarChatEmbeddings returns for the store's results
similarBundleMutSwapped(v, queryVector, results) ==
    [query_vector_dimensions |-> queryVector.len,
     results_count |-> Len(results),
     max_similarity_score |->
        IF Len(results) > 0 THEN results[Len(results)]["$similarity"] ELSE 0,
     min_similarity_score |->
        IF Len(results) > 0 THEN results[1]["$similarity"] ELSE 0,
     results |-> [a \in DOMAIN results |->
                    toRecord(v, results[a])
                    @@ ("similarity_score" :> results[a]["$similarity"])]]

similarBundle(v, queryVector, results) ==
    [query_vector_dimensions |-> queryVector.len,
     results_count |-> Len(results),
     max_similarity_score |->
        IF Len(results) > 0 THEN results[1]["$similarity"] ELSE 0,
     min_similarity_score |->
        IF Len(results) > 0 THEN results[Len(results)]["$similarity"] ELSE 0,
     results |-> [a \in DOMAIN results |->
                    toRecord(v, results[a])
                    @@ ("similarity_score" :> results[a]["$similarity"])]]

\* POST /similarity: validate(similaritySearchSchema),
\* findSimilarChatEmbeddings (build the query, vector find, map), 200
PostSimilarity(p, body) ==
    /\ Free(p)
    /\ LET r == Request("similarity", "done", UnusedId, body)
           checked == validate(similaritySearchSchema, body)
           limit == IF Has(body, "limit") THEN body.limit ELSE DefaultSimilarLimit
           filters == IF Has(body, "filters") THEN body.filters ELSE EmptyObj
       IN  last' = IF checked.kind = "json"
                   THEN Answered(r, 0, checked)
                   ELSE Answered(r, 1, Ok(200, similarBundle(version,
                            body.primary_embedding,
                            vectorFind(store, similarQuery(filters),
                                       body.primary_embedding, limit))))
    /\ conn' = IF validate(similaritySearchSchema, body).kind = "json"
               THEN conn ELSE initialize(conn)
    /\ UNCHANGED <<version, store, nextId, clock, req, born>>

\* validate(batchSchema) on the batches of the model, tabulated per version
batchChecked ==
    [v \in {1, 2} |->
        [body \in BatchBodies |-> validate(batchSchema(v), body)]]

\* POST /batch: validate(batchSchema), createChatEmbeddingsBatch (build the
\* documents, insertMany), 201.  The millisecond, if it turns during the
\* batch, turns after the first reading of the clock.
PostBatch(p, body) ==
    /\ Free(p)
    /\ LET r == Request("batch", "done", UnusedId, body)
           checked == batchChecked[version][body]
       IN  IF checked.kind = "json"
           THEN /\ last' = Answered(r, 0, checked)
                /\ UNCHANGED <<conn, version, store, nextId, clock, req, born>>
           ELSE LET n == Len(body.embeddings) IN
                /\ nextId + n <= Capacity
                /\ \E cut \in (IF clock < MaxClock THEN {1, 3 * n} ELSE {3 * n}) :
                     LET documents == batchDocuments(version, nextId,
                                                     body.embeddings, clock, cut)
                         ids == [a \in DOMAIN documents |-> documents[a]["_id"]]
                     IN  /\ store' = insertMany(store, documents)
                         /\ born' = [i \in DOMAIN born |->
                                        IF i > nextId /\ i <= nextId + n
                                        THEN [input |-> body.embeddings[i - nextId],
                                              doc |-> documents[i - nextId]]
                                        ELSE born[i]]
                         /\ nextId' = nextId + n
                         /\ clock' = documents[n].updated_at
                         /\ conn' = initialize(conn)
                         /\ last' = Answered([r EXCEPT !.wrote = TRUE], 1,
                                      Ok(201, batchResult(n, ids, documents)))
                         /\ UNCHANGED <<version, req>>

\* getStatistics: what it returns at instant now
statisticsMutNoFallback(st, now) ==
    [total_embeddings |-> countDocuments(st, EmptyObj),
     recent_embeddings_7_days |->
        countDocuments(st, "timestamp" :> ("$gte" :> now - SevenDaysMs)),
     message_type_distribution |->
        [t \in {row["_id"] : row \in groupByMessageType(st)} |->
            (CHOOSE row \in groupByMessageType(st) : row["_id"] = t).count],
     processing_statistics |->
        IF groupProcessingTime(st) # <<>> THEN groupProcessingTime(st)[1]
        ELSE EmptyObj,
     collection_info |->
        [name |-> "chat_embeddings",
         vector_dimensions |-> [primary |-> PrimaryDim,
                                lightweight |-> LightweightDim]]]

\* the four reads of getStatistics, each of the collection as it is when
\* the read runs
statsTotal(st) == countDocuments(st, EmptyObj)

statsTypes(st) ==
    [t \in {row["_id"] : row \in groupByMessageType(st)} |->
        (CHOOSE row \in groupByMessageType(st) : row["_id"] = t).count]

statsRecent(st, now) ==
    countDocuments(st, "timestamp" :> ("$gte" :> now - SevenDaysMs))

statsProcessing(st) ==
    IF groupProcessingTime(st) # <<>> THEN groupProcessingTime(st)[1]
    ELSE [avg_processing_time |-> 0, min_processing_time |-> 0,
          max_processing_time |-> 0]

\* the object getStatistics returns for the results of its four reads
statsBundle(total, types, recent, processing) ==
    [total_embeddings |-> total,
     recent_embeddings_7_days |-> recent,
     message_type_distribution |-> types,
     processing_statistics |-> processing,
     collection_info |->
        [name |-> "chat_embeddings",
         vector_dimensions |-> [primary |-> PrimaryDim,
                                lightweight |-> LightweightDim]]]

\* getStatistics with no other request between its reads
statistics(st, now) ==
    statsBundle(statsTotal(st), statsTypes(st), statsRecent(st, now),
                statsProcessing(st))

\* GET /stats: getStatistics (two counts and two aggregations), 200
GetStats(p) ==
    /\ Free(p)
    /\ last' = Answered(Request("stats", "done", UnusedId, EmptyObj), 4,
                        Ok(200, statistics(store, clock)))
    /\ conn' = initialize(conn)
    /\ UNCHANGED <<version, store, nextId, clock, req, born>>

\* GET /:id: getChatEmbeddingById (findOne, map), 200 or the catch block
GetById(p, id) ==
    /\ Free(p)
    /\ LET r == Request("get", "done", id, EmptyObj)
       IN  last' = IF Exists(id)
                   THEN Answered(r, 1, Ok(200, toRecord(version, store[id])))
                   ELSE Answered(r, 1, RouteCatch(
                            Rethrow("Failed to get chat embedding", NotFoundMessage)))
    /\ conn' = initialize(conn)
    /\ UNCHANGED <<version, store, nextId, clock, req, born>>

\* DELETE /:id: deleteChatEmbedding (deleteOne), 200 or the catch block
DeleteById(p, id) ==
    /\ Free(p)
    /\ LET r == Request("delete", "done", id, EmptyObj)
       IN  IF Exists(id)
           THEN /\ store' = deleteOne(store, id)
                /\ last' = Answered([r EXCEPT !.wrote = TRUE], 1,
                             Ok(200, [id |-> id, deleted |-> TRUE, deletedCount |-> 1]))
           ELSE /\ store' = store
                /\ last' = Answered(r, 1, RouteCatch(
                          Rethrow("Failed to delete chat embedding", NotFoundMessage)))
    /\ conn' = initialize(conn)
    /\ UNCHANGED <<version, nextId, clock, req, born>>

\* PUT /:id: validate(updateChatEmbeddingSchema), then updateChatEmbedding up
\* to its first store call.  Version 2 builds updateDoc, reading the clock,
\* before that call.
PutUpdate(p, id, body) ==
    /\ Free(p)
    /\ LET checked == updateChecked[version][body]
       IN  IF checked.kind = "json"
           THEN /\ last' = Answered(Request("update", "done", id, body), 0, checked)
                /\ req' = req
           ELSE /\ req' = [req EXCEPT ![p] =
                      IF version = 1
                      THEN Request("update", "findOne", id, body)
                      ELSE [Request("update", "findOneAndUpdate", id, body)
                              EXCEPT !.document = updateDoc(body, clock)]]
                /\ last' = Idle
    /\ conn' = IF updateChecked[version][body].kind = "json"
               THEN conn ELSE initialize(conn)
    /\ UNCHANGED <<version, store, nextId, clock, born>>

\* version 1: existingEntry = await findOne({_id: id}); not found throws.
\* Of existingEntry the request keeps created_at, the one field it reads.
UpdFindOne(p) ==
    /\ req[p].pc = "findOne"
    /\ LET r == [req[p] EXCEPT !.calls = @ + 1]
       IN  IF Exists(r.id)
           THEN /\ req' = [req EXCEPT ![p] =
                      [r EXCEPT !.pc = "build",
                                !.existingEntry = Pick(store[r.id], {"created_at"})]]
                /\ last' = Idle
           ELSE /\ req' = [req EXCEPT ![p] = Idle]
                /\ last' = Answered(r, r.calls, RouteCatch(
                       Rethrow("Failed to update chat embedding", NotFoundMessage)))
    /\ UNCHANGED <<conn, version, store, nextId, clock, born>>

\* version 1: build replacementDocument (two readings of the clock) and issue
\* replaceOne
UpdBuild(p) ==
    /\ req[p].pc = "build"
    /\ \E t2 \in Later(clock) :
         /\ req' = [req EXCEPT ![p] =
               [req[p] EXCEPT !.pc = "replaceOne",
                              !.document = replacementDocument(
                                  version, req[p].id, req[p].body,
                                  req[p].existingEntry, clock, t2)]]
         /\ clock' = t2
    /\ last' = Idle
    /\ UNCHANGED <<conn, version, store, nextId, born>>

\* version 1: the store applies replaceOne; matchedCount 0 throws not found
UpdReplaceOne(p) ==
    /\ req[p].pc = "replaceOne"
    /\ LET r == [req[p] EXCEPT !.calls = @ + 1]
       IN  /\ store' = replaceOne(store, r.id, r.document)
           /\ IF Exists(r.id)
              THEN /\ req' = [req EXCEPT ![p] =
                         [r EXCEPT !.pc = "reread", !.wrote = TRUE]]
                   /\ last' = Idle
              ELSE /\ req' = [req EXCEPT ![p] = Idle]
                   /\ last' = Answered(r, r.calls, RouteCatch(
                          Rethrow("Failed to update chat embedding", NotFoundMessage)))
    /\ UNCHANGED <<conn, version, nextId, clock, born>>

\* version 1: updatedEntry = await findOne({_id: id}), mapped and returned;
\* reading updatedEntry._id of null throws a TypeError
UpdReread(p) ==
    /\ req[p].pc = "reread"
    /\ LET r == [req[p] EXCEPT !.calls = @ + 1]
       IN  /\ req' = [req EXCEPT ![p] = Idle]
           /\ last' = IF Exists(r.id)
                      THEN Answered(r, r.calls, Ok(200, toRecord(version, store[r.id])))
                      ELSE Answered(r, r.calls, RouteCatch(
                               Rethrow("Failed to update chat embedding",
                                       "Cannot read properties of null (reading '_id')")))
    /\ UNCHANGED <<conn, version, store, nextId, clock, born>>

\* version 2: the store applies findOneAndUpdate and returns the document
\* after the update, or null
UpdFindOneAndUpdate(p) ==
    /\ req[p].pc = "findOneAndUpdate"
    /\ LET r == [req[p] EXCEPT !.calls = @ + 1]
       IN  /\ store' = findOneAndUpdate(store, r.id, r.document)
           /\ req' = [req EXCEPT ![p] = Idle]
           /\ last' = IF Exists(r.id)
                      THEN Answered([r EXCEPT !.wrote = TRUE], r.calls,
                                    Ok(200, toRecord(version, store'[r.id])))
                      ELSE Answered(r, r.calls, RouteCatch(
                               Rethrow("Failed to update chat embedding", NotFoundMessage)))
    /\ UNCHANGED <<conn, version, nextId, clock, born>>

\* the steps of the requests of the connections in P, with request bodies
\* drawn from C (create) and U (update)
Serve(P, C, U) ==
    \E p \in P :
        \/ \E body \in C : PostCreate(p, body)
        \/ \E body \in SimilarityBodies : PostSimilarity(p, body)
        \/ \E id \in KnownIds : GetById(p, id)
        \/ \E id \in KnownIds : DeleteById(p, id)
        \/ \E id \in KnownIds : \E body \in U : PutUpdate(p, id, body)
        \/ UpdFindOne(p)
        \/ UpdBuild(p)
        \/ UpdReplaceOne(p)
        \/ UpdReread(p)
        \/ UpdFindOneAndUpdate(p)

\* one request at a time, every request body
Next == Tick \/ Serve({1}, CreateBodies, UpdateBodies)

Spec == Init /\ [][Next]_vars

\* two requests at a time
NextConcurrent == Tick \/ Serve(Procs, {BodyCaller}, {BodyCaller})

SpecConcurrent == Init /\ [][NextConcurrent]_vars

-----------------------------------------------------------------------------
(* The batch runs: one request at a time over a collection filled by
   batches, which holds either MaxStore documents or one batch of 50; reads
   and deletes name the first MaxStore identifiers handed out and one never
   handed out; the clock advances while a batch is built *)

ProbeIds == {UnusedId} \cup 1..(IF nextId < MaxStore THEN nextId ELSE MaxStore)

InitCollection ==
    /\ version \in {1, 2}
    /\ \E c \in {MaxStore, MaxBatch} :
          /\ store = [i \in {UnusedId} \cup 1..c |-> NoDoc]
          /\ born = [i \in {UnusedId} \cup 1..c |-> NoDoc]
    /\ nextId = 0
    /\ clock = 0
    /\ req = [p \in Procs |-> Idle]
    /\ last = Idle
    /\ conn = Unconnected

NextCollection ==
    \/ \E body \in BatchBodies :
          /\ Capacity = MaxBatch => BatchSize(body) \notin 1..(MaxBatch - 1)
          /\ PostBatch(1, body)
    \/ \E id \in ProbeIds : GetById(1, id)
    \/ \E id \in ProbeIds : DeleteById(1, id)
    \/ GetStats(1)

SpecCollection == InitCollection /\ [][NextCollection]_vars

-----------------------------------------------------------------------------
(* Query: GET /query.  validateQuery reads only the error of
   schema.validate(req.query, ...), so the service receives req.query as
   Express parsed it: every value given in the URL is a string.  A
   JavaScript value that arithmetic touches is [type |-> "number", n |-> 10]
   or [type |-> "string", chars |-> <<1, 0>>], the string of those decimal
   digits *)

Num(n) == [type |-> "number", n |-> n]
Str(chars) == [type |-> "string", chars |-> chars]

DefaultQueryLimit == 20

RECURSIVE DigitsValue(_)
\* the number a string of decimal digits converts to
DigitsValue(chars) ==
    IF chars = <<>> THEN 0
    ELSE 10 * DigitsValue(SubSeq(chars, 1, Len(chars) - 1)) + chars[Len(chars)]

RECURSIVE Digits(_)
\* String(n) for a natural n
Digits(n) == IF n < 10 THEN <<n>> ELSE Digits(n \div 10) \o <<n % 10>>

\* ToNumber and ToString of the language
ToNumber(x) == IF x.type = "number" THEN x.n ELSE DigitsValue(x.chars)
ToStr(x) == IF x.type = "number" THEN Digits(x.n) ELSE x.chars

\* x + y: the sum of two numbers, else the concatenation of the two strings
JsAdd(x, y) ==
    IF x.type = "number" /\ y.type = "number" THEN Num(x.n + y.n)
    ELSE Str(ToStr(x) \o ToStr(y))

\* x < y where y is a number: x is converted to a number
JsLess(x, y) == ToNumber(x) < y

SortFields == {"timestamp", "processing_time_ms", "text_length"}

\* querySchema: the violations of a query object (date_range apart, which
\* the queries of the model do not carry)
querySchemaErrors(q) ==
    UNION {FieldErrors(k, q[k]) :
              k \in {"user_id", "session_id", "message_type"} \cap DOMAIN q}
    \cup (IF Has(q, "limit") /\ ToNumber(q.limit) < 1
          THEN {<<"limit", "number.min">>} ELSE {})
    \cup (IF Has(q, "limit") /\ ToNumber(q.limit) > MaxLimit
          THEN {<<"limit", "number.max">>} ELSE {})
    \cup (IF Has(q, "sort_by") /\ q.sort_by \notin SortFields
          THEN {<<"sort_by", "any.only">>} ELSE {})
    \cup (IF Has(q, "sort_order") /\ q.sort_order \notin {"asc", "desc"}
          THEN {<<"sort_order", "any.only">>} ELSE {})

validateQuery(q) ==
    IF querySchemaErrors(q) # {}
    THEN [kind |-> "json", status |-> 400, success |-> FALSE,
          error |-> "Query Validation Error",
          details |-> querySchemaErrors(q)]
    ELSE [kind |-> "next"]

\* the queries of the model: none (all defaults), the limit=5 of the
\* 'should query embeddings with filters' test with a message type, a page
\* size alone, an offset alone, the first, second and third page of size 1,
\* the second page of size 2, and a limit of 0
Queries ==
    {EmptyObj,
     [message_type |-> "user_message", limit |-> Str(<<5>>)],
     [limit |-> Str(<<2>>)],
     [offset |-> Str(<<1>>)],
     [offset |-> Str(<<0>>), limit |-> Str(<<1>>)],
     [offset |-> Str(<<1>>), limit |-> Str(<<1>>), sort_order |-> "asc"],
     [offset |-> Str(<<2>>), limit |-> Str(<<1>>)],
     [offset |-> Str(<<2>>), limit |-> Str(<<2>>), sort_by |-> "text_length"],
     [limit |-> Str(<<0>>)]}

\* the destructuring defaults of queryChatEmbeddings
queryLimit(q) == IF Has(q, "limit") THEN q.limit ELSE Num(DefaultQueryLimit)
queryOffset(q) == IF Has(q, "offset") THEN q.offset ELSE Num(0)
querySortBy(q) == IF Has(q, "sort_by") THEN q.sort_by ELSE "timestamp"
querySortOrder(q) == IF Has(q, "sort_order") THEN q.sort_order ELSE "desc"

\* the filter queryChatEmbeddings builds
queryFilter(q) ==
    [k \in {j \in {"user_id", "session_id", "message_type"} :
                Has(q, j) /\ q[j] # ""} |-> q[k]]
    @@ (IF Has(q, "date_range")
        THEN "timestamp" :>
               [b \in {c \in {"$gte", "$lte"} :
                          Has(q.date_range, IF c = "$gte" THEN "start" ELSE "end")}
                  |-> q.date_range[IF b = "$gte" THEN "start" ELSE "end"]]
        ELSE EmptyObj)

\* find(query).sort({[sortBy]: order}).skip(skip).limit(limit).toArray():
\* the matching documents by the sort key (a document without it sorts as
\* the lowest; equal keys in identifier order), without the first skip of
\* them, at most limit of them
SortKey(st, i, sortBy) == IF Has(st[i], sortBy) THEN st[i][sortBy] ELSE -1

SortsBefore(st, i, j, sortBy, sortOrder) ==
    \/ IF sortOrder = 1
       THEN SortKey(st, i, sortBy) < SortKey(st, j, sortBy)
       ELSE SortKey(st, i, sortBy) > SortKey(st, j, sortBy)
    \/ SortKey(st, i, sortBy) = SortKey(st, j, sortBy) /\ i < j

RECURSIVE Ascending(_, _, _)
\* the identifiers of S, all within lo..hi, in ascending order
Ascending(S, lo, hi) ==
    IF S = {} THEN <<>>
    ELSE IF lo = hi THEN <<lo>>
    ELSE LET mid == (lo + hi) \div 2
         IN  Ascending({i \in S : i <= mid}, lo, mid)
                \o Ascending({i \in S : i > mid}, mid + 1, hi)

RECURSIVE Sorted(_, _, _, _)
\* the documents of hits in the order of the sort: by key, and those of
\* one key in identifier order
Sorted(st, hits, sortBy, sortOrder) ==
    IF hits = {} THEN <<>>
    ELSE LET first == CHOOSE i \in hits :
                         \A j \in hits \ {i} : SortsBefore(st, i, j, sortBy, sortOrder)
             same == {i \in hits : SortKey(st, i, sortBy) = SortKey(st, first, sortBy)}
         IN  Ascending(same, first, CHOOSE i \in same : \A j \in same : j <= i)
                \o Sorted(st, hits \ same, sortBy, sortOrder)

sortedFind(st, query, sortBy, sortOrder, skip, limit) ==
    LET hits == {i \in DOMAIN st : st[i] # NoDoc /\ Matches(st[i], query)}
        order == Sorted(st, hits, sortBy, sortOrder)
        rest == IF skip < Cardinality(hits) THEN Cardinality(hits) - skip ELSE 0
        n == IF limit < rest THEN limit ELSE rest
    IN  [a \in 1..n |-> st[order[skip + a]]]

\* the record shape of a query result: the public record without the two
\* embeddings
queryRecord(v, result) ==
    ("id" :> result["_id"])
    @@ Pick(result, RecordKeys(v) \ {"lightweight_embedding"})

\* the pagination object with the pages counted by rounding down
paginationMutFloor(offset, limit, totalCount) ==
    [total_count |-> totalCount,
     current_page |-> (ToNumber(offset) \div ToNumber(limit)) + 1,
     total_pages |-> totalCount \div ToNumber(limit),
     has_next |-> JsLess(JsAdd(offset, limit), totalCount),
     has_previous |-> ToNumber(offset) > 0]

\* the pagination object of queryChatEmbeddings
pagination(offset, limit, totalCount) ==
    [total_count |-> totalCount,
     current_page |-> (ToNumber(offset) \div ToNumber(limit)) + 1,
     total_pages |->
        (totalCount + ToNumber(limit) - 1) \div ToNumber(limit),
     has_next |-> JsLess(JsAdd(offset, limit), totalCount),
     has_previous |-> ToNumber(offset) > 0]

\* what queryChatEmbeddings returns when the store answers
queryResults(v, st, q) ==
    LET found == sortedFind(st, queryFilter(q), querySortBy(q),
                            IF querySortOrder(q) = "asc" THEN 1 ELSE -1,
                            ToNumber(queryOffset(q)),
                            ToNumber(queryLimit(q)))
    IN  [a \in DOMAIN found |-> queryRecord(v, found[a])]

queryBundle(v, st, q) ==
    [results |-> queryResults(v, st, q),
     pagination |->
        pagination(queryOffset(q), queryLimit(q),
                   countDocuments(st, queryFilter(q)))]

\* the store's refusal of a skip or limit that is not a number
BadOption == "skip and limit must be numbers"

\* GET /query: validateQuery(querySchema), queryChatEmbeddings(req.query)
\* (build the filter, find with sort, skip and limit, count), 200.  Whether
\* the store converts a skip or a limit given as a string or refuses it is
\* the store's own: both outcomes are taken.
GetQuery(p, q) ==
    /\ Free(p)
    /\ LET r == Request("query", "done", UnusedId, q)
           checked == validateQuery(q)
           textual == queryOffset(q).type = "string"
                        \/ queryLimit(q).type = "string"
       IN  IF checked.kind = "json"
           THEN /\ last' = Answered(r, 0, checked)
                /\ conn' = conn
           ELSE /\ conn' = initialize(conn)
                /\ \E converts \in (IF textual THEN BOOLEAN ELSE {TRUE}) :
                      last' =
                        IF converts
                        THEN Answered(r, 2, Ok(200, queryBundle(version, store, q)))
                        ELSE Answered(r, 1,
                                [kind |-> "error_handler",
                                 error |-> Rethrow("Failed to query chat embeddings",
                                                   BadOption)])
    /\ UNCHANGED <<version, store, nextId, clock, req, born>>

-----------------------------------------------------------------------------
(* The search runs: one request at a time over a collection of at most
   MaxStore documents filled by batches of one and of two records; queries
   and similarity searches read it *)

\* a search of the two nearest records, next to those of SimilarityBodies
SearchTop == [primary_embedding |-> Vec(PrimaryDim, 8), limit |-> 2]

SearchBodies == SimilarityBodies \cup {SearchTop}

InitSearch ==
    /\ version \in {1, 2}
    /\ store = [i \in {UnusedId} \cup 1..MaxStore |-> NoDoc]
    /\ born = [i \in {UnusedId} \cup 1..MaxStore |-> NoDoc]
    /\ nextId = 0
    /\ clock = 0
    /\ req = [p \in Procs |-> Idle]
    /\ last = Idle
    /\ conn = Unconnected

NextSearch ==
    \/ \E body \in {BatchOf(<<BodyX>>), BatchOf(<<BodyY, BodyX>>)} :
          PostBatch(1, body)
    \/ \E q \in Queries : GetQuery(1, q)
    \/ \E body \in SearchBodies : PostSimilarity(1, body)

SpecSearch == InitSearch /\ [][NextSearch]_vars

-----------------------------------------------------------------------------
(* The connection runs: two requests at a time, each await of initialize()
   and of connect() a step of its own.  A request is at "info" while
   connect() awaits db.info(), at "create" while it awaits
   createCollection(), at "assign" when connect() has returned and
   initialize() has yet to store the handle, at "call" when it holds the
   collection.  Reads only: statistics and getById on an empty collection *)

ConnectFailure == "createCollection failed"

\* the prefix of the catch block of the operation
FailurePrefix(op) ==
    IF op = "stats" THEN "Failed to get statistics"
    ELSE "Failed to get chat embedding"

\* the request enters the service: initialize() finds the handle, or calls
\* connect(), which returns the memoized collection if isConnected and else
\* builds the client and awaits db.info()
ConnBegin(p, op) ==
    /\ req[p].pc = "idle"
    /\ req' = [req EXCEPT ![p] =
                  Request(op,
                          IF conn.collection # NoHandle THEN "call"
                          ELSE IF conn.isConnected THEN "assign"
                          ELSE "info",
                          UnusedId, EmptyObj)]
    /\ UNCHANGED <<version, store, nextId, clock, last, born, conn>>

\* db.info() settles (a rejection is caught and logged); connect() calls
\* createCollection and awaits it
ConnInfo(p) ==
    /\ req[p].pc = "info"
    /\ req' = [req EXCEPT ![p].pc = "create"]
    /\ UNCHANGED <<version, store, nextId, clock, last, born, conn>>

\* createCollection settles: the collection is created, or it 'already
\* exists' and is accessed, and connect() stores it, sets isConnected and
\* returns; or it fails otherwise and the request fails
ConnCreate(p, outcome) ==
    /\ req[p].pc = "create"
    /\ IF outcome \in {"created", "already exists"}
       THEN /\ conn' = [conn EXCEPT !.handle = Handle, !.isConnected = TRUE,
                                    !.provisions = @ + 1]
            /\ req' = [req EXCEPT ![p].pc = "assign"]
            /\ last' = last
       ELSE /\ conn' = conn
            /\ req' = [req EXCEPT ![p] = Idle]
            /\ last' = Answered(req[p], 0,
                          [kind |-> "error_handler",
                           error |-> Rethrow(FailurePrefix(req[p].op),
                                             ConnectFailure)])
    /\ UNCHANGED <<version, store, nextId, clock, born>>

\* initialize() resumes: this.collection = the collection connect() returned
ConnAssign(p) ==
    /\ req[p].pc = "assign"
    /\ conn' = [conn EXCEPT !.collection = conn.handle]
    /\ req' = [req EXCEPT ![p].pc = "call"]
    /\ UNCHANGED <<version, store, nextId, clock, last, born>>

\* the operation reads the collection and the route answers
ConnCall(p) ==
    /\ req[p].pc = "call"
    /\ last' = IF req[p].op = "stats"
               THEN Answered(req[p], 4, Ok(200, statistics(store, clock)))
               ELSE Answered(req[p], 1, RouteCatch(
                        Rethrow("Failed to get chat embedding", NotFoundMessage)))
    /\ req' = [req EXCEPT ![p] = Idle]
    /\ UNCHANGED <<version, store, nextId, clock, born, conn>>

NextConnect ==
    \E p \in Procs :
        \/ \E op \in {"stats", "get"} : ConnBegin(p, op)
        \/ ConnInfo(p)
        \/ \E outcome \in {"created", "already exists", "failed"} :
              ConnCreate(p, outcome)
        \/ ConnAssign(p)
        \/ ConnCall(p)

SpecConnect == Init /\ [][NextConnect]_vars

-----------------------------------------------------------------------------
(* The intake runs: one request at a time with the request bodies that
   carry several violations or keys the schemas do not have, and a query
   with two violations *)

QueryMulti == [limit |-> Str(<<0>>), sort_order |-> "up"]

NextIntake ==
    \/ Serve({1}, IntakeBodies, {BodyMulti, BodyNested})
    \/ GetQuery(1, QueryMulti)

SpecIntake == Init /\ [][NextIntake]_vars

-----------------------------------------------------------------------------
(* The reading runs: two requests at a time, each store read of
   queryChatEmbeddings (find, then countDocuments) and of getStatistics
   (countDocuments, aggregate, countDocuments, aggregate) a step of its
   own, while the other connection creates and deletes.  A request keeps
   what it has read so far in its document field *)

ReadQueries == {EmptyObj, [limit |-> Str(<<1>>)]}

\* GET /query up to the find: validateQuery, the filter, find with sort,
\* skip and limit
QueryFind(p, q) ==
    /\ Free(p)
    /\ LET r == Request("query", "count", UnusedId, q)
           checked == validateQuery(q)
           textual == queryOffset(q).type = "string"
                        \/ queryLimit(q).type = "string"
       IN  IF checked.kind = "json"
           THEN /\ last' = Answered(r, 0, checked)
                /\ UNCHANGED <<conn, req>>
           ELSE /\ conn' = initialize(conn)
                /\ \E converts \in (IF textual THEN BOOLEAN ELSE {TRUE}) :
                      IF converts
                      THEN /\ req' = [req EXCEPT ![p] =
                                 [r EXCEPT !.calls = 1,
                                           !.document =
                                              [results |->
                                                 queryResults(version, store, q)]]]
                           /\ last' = Idle
                      ELSE /\ req' = req
                           /\ last' = Answered(r, 1,
                                 [kind |-> "error_handler",
                                  error |-> Rethrow("Failed to query chat embeddings",
                                                    BadOption)])
    /\ UNCHANGED <<version, store, nextId, clock, born>>

\* the countDocuments of the query, the pagination and the answer
QueryCount(p) ==
    /\ req[p].pc = "count"
    /\ last' = Answered(req[p], 2,
                  Ok(200, [results |-> req[p].document.results,
                           pagination |->
                              pagination(queryOffset(req[p].body),
                                         queryLimit(req[p].body),
                                         countDocuments(store,
                                            queryFilter(req[p].body)))]))
    /\ req' = [req EXCEPT ![p] = Idle]
    /\ UNCHANGED <<version, store, nextId, clock, born, conn>>

\* GET /stats up to its first read: countDocuments({})
StatsTotal(p) ==
    /\ Free(p)
    /\ req' = [req EXCEPT ![p] =
          [Request("stats", "types", UnusedId, EmptyObj)
              EXCEPT !.calls = 1, !.document = [total |-> statsTotal(store)]]]
    /\ conn' = initialize(conn)
    /\ last' = Idle
    /\ UNCHANGED <<version, store, nextId, clock, born>>

\* the aggregation by message_type
StatsTypes(p) ==
    /\ req[p].pc = "types"
    /\ req' = [req EXCEPT ![p].pc = "recent", ![p].calls = 2,
                          ![p].document = @ @@ [types |-> statsTypes(store)]]
    /\ last' = Idle
    /\ UNCHANGED <<version, store, nextId, clock, born, conn>>

\* the count of the last seven days, from the clock as it is now
StatsRecent(p) ==
    /\ req[p].pc = "recent"
    /\ req' = [req EXCEPT ![p].pc = "processing", ![p].calls = 3,
                          ![p].document =
                             @ @@ [recent |-> statsRecent(store, clock)]]
    /\ last' = Idle
    /\ UNCHANGED <<version, store, nextId, clock, born, conn>>

\* the aggregation of processing_time_ms and the answer
StatsProcessing(p) ==
    /\ req[p].pc = "processing"
    /\ last' = Answered(req[p], 4,
                  Ok(200, statsBundle(req[p].document.total,
                                      req[p].document.types,
                                      req[p].document.recent,
                                      statsProcessing(store))))
    /\ req' = [req EXCEPT ![p] = Idle]
    /\ UNCHANGED <<version, store, nextId, clock, born, conn>>

NextReading ==
    \E p \in Procs :
        \/ \E q \in ReadQueries : QueryFind(p, q)
        \/ QueryCount(p)
        \/ StatsTotal(p)
        \/ StatsTypes(p)
        \/ StatsRecent(p)
        \/ StatsProcessing(p)
        \/ \E body \in ValidBodies : PostCreate(p, body)
        \/ \E id \in KnownIds : DeleteById(p, id)

SpecReading == Init /\ [][NextReading]_vars

-----------------------------------------------------------------------------
(* The filter runs: one request at a time over a collection of at most
   MaxStore documents filled by batches; similarity searches and queries
   with each optional filter field present or absent *)

FilterSets ==
    {EmptyObj,
     [user_id |-> "u1"],
     [session_id |-> "s2", message_type |-> "ai_response"],
     [date_range |-> [start |-> 1]],
     [date_range |-> [end |-> 0]],
     [date_range |-> [start |-> 0, end |-> 1]],
     [date_range |-> EmptyObj],
     [emotion_filter |-> [dominant_emotion |-> "fear"]],
     [emotion_filter |-> [min_intensity |-> 1]],
     [emotion_filter |-> [min_intensity |-> 0]],
     [semantic_tags |-> <<>>],
     [semantic_tags |-> <<"anxiety">>, user_id |-> "u1"]}

FilterBodies ==
    {[primary_embedding |-> Vec(PrimaryDim, 1), filters |-> f] : f \in FilterSets}

FilterQueries ==
    {[user_id |-> "u1"],
     [session_id |-> "s2", message_type |-> "ai_response"],
     [date_range |-> [start |-> 1]],
     [date_range |-> [start |-> 0, end |-> 0]],
     [date_range |-> EmptyObj]}

NextFilter ==
    \/ \E body \in {BatchOf(<<BodyX>>), BatchOf(<<BodyY, BodyX>>)} :
          PostBatch(1, body)
    \/ \E body \in FilterBodies : PostSimilarity(1, body)
    \/ \E q \in FilterQueries : GetQuery(1, q)

SpecFilter == InitSearch /\ [][NextFilter]_vars

-----------------------------------------------------------------------------
(* Per-user and per-session routes: GET /user/:userId, GET
   /session/:sessionId and DELETE /session/:sessionId.  None of them
   validates; the two GET routes convert limit and offset with parseInt *)

DefaultUserLimit == 20
DefaultSessionLimit == 50
SessionCleanupLimit == 1000

\* parseInt of a string of decimal digits or of a number
parseInt(x) == Num(ToNumber(x))

\* URL queries of the two GET routes: none, pages of size 1 and 2 at
\* aligned and unaligned offsets (a limit of 0 is not among them)
PageQueries ==
    {EmptyObj,
     [limit |-> Str(<<2>>)],
     [offset |-> Str(<<1>>), limit |-> Str(<<1>>)],
     [offset |-> Str(<<1>>), limit |-> Str(<<2>>)],
     [offset |-> Str(<<2>>), limit |-> Str(<<2>>)]}

\* the options the GET /user/:userId route hands to queryChatEmbeddings
userOptions(userId, q) ==
    [user_id |-> userId,
     limit |-> parseInt(IF Has(q, "limit") THEN q.limit ELSE Num(DefaultUserLimit)),
     offset |-> parseInt(IF Has(q, "offset") THEN q.offset ELSE Num(0)),
     sort_by |-> IF Has(q, "sort_by") THEN q.sort_by ELSE "timestamp",
     sort_order |-> IF Has(q, "sort_order") THEN q.sort_order ELSE "desc"]

\* the options the GET /session/:sessionId route hands to it
sessionOptions(sessionId, q) ==
    [session_id |-> sessionId,
     limit |-> parseInt(IF Has(q, "limit") THEN q.limit
                        ELSE Num(DefaultSessionLimit)),
     offset |-> parseInt(IF Has(q, "offset") THEN q.offset ELSE Num(0)),
     sort_by |-> IF Has(q, "sort_by") THEN q.sort_by ELSE "timestamp",
     sort_order |-> IF Has(q, "sort_order") THEN q.sort_order ELSE "asc"]

\* GET /user/:userId: queryChatEmbeddings (find, count), 200
GetUser(p, userId, q) ==
    /\ Free(p)
    /\ last' = Answered(Request("user", "done", UnusedId,
                                [params |-> [userId |-> userId], query |-> q]),
                        2, Ok(200, queryBundle(version, store,
                                               userOptions(userId, q))))
    /\ conn' = initialize(conn)
    /\ UNCHANGED <<version, store, nextId, clock, req, born>>

\* GET /session/:sessionId: queryChatEmbeddings (find, count), 200
GetSession(p, sessionId, q) ==
    /\ Free(p)
    /\ last' = Answered(Request("session", "done", UnusedId,
                                [params |-> [sessionId |-> sessionId], query |-> q]),
                        2, Ok(200, queryBundle(version, store,
                                               sessionOptions(sessionId, q))))
    /\ conn' = initialize(conn)
    /\ UNCHANGED <<version, store, nextId, clock, req, born>>

\* the options DELETE /session/:sessionId hands to queryChatEmbeddings
cleanupOptions(sessionId) ==
    [session_id |-> sessionId, limit |-> Num(SessionCleanupLimit)]

\* the loop of DELETE /session/:sessionId over the identifiers found: one
\* deleteChatEmbedding each, in order; a delete that fails (those of failed)
\* is logged and the loop goes on
sessionCleanupMutAbort(st, ids, failed) ==
    LET stop == IF \E a \in DOMAIN ids : ids[a] \in failed
                THEN CHOOSE a \in DOMAIN ids :
                        /\ ids[a] \in failed
                        /\ \A b \in 1..(a - 1) : ids[b] \notin failed
                ELSE Len(ids)
        gone == {ids[a] : a \in {b \in 1..stop : ids[b] \notin failed}}
    IN  [store |-> [i \in DOMAIN st |-> IF i \in gone THEN NoDoc ELSE st[i]],
         attempts |-> stop,
         deleted_count |-> Cardinality(gone),
         found_count |-> Len(ids)]

sessionCleanup(st, ids, failed) ==
    LET gone == Range(ids) \ failed
    IN  [store |-> [i \in DOMAIN st |-> IF i \in gone THEN NoDoc ELSE st[i]],
         attempts |-> Len(ids),
         deleted_count |-> Cardinality(gone),
         found_count |-> Len(ids)]

\* the deletes that may fail in one cleanup: any of them in a small
\* session, none or the first or all in a large one
FailureSets(ids) ==
    IF Len(ids) <= MaxStore THEN SUBSET Range(ids)
    ELSE {{}, {ids[1]}, Range(ids)}

\* the identifiers of the records found, in the order found
foundIds(found) == [a \in DOMAIN found |-> found[a].id]

\* what the loop can leave behind, over the deletes that may fail
cleanupOutcomes(st, ids) ==
    {sessionCleanup(st, ids, failed) : failed \in FailureSets(ids)}

\* DELETE /session/:sessionId: queryChatEmbeddings (find, count), the loop
\* of deletes, 200
DeleteSession(p, sessionId) ==
    /\ Free(p)
    /\ \E done \in cleanupOutcomes(store,
                    foundIds(queryResults(version, store, cleanupOptions(sessionId)))) :
          LET r == Request("session_delete", "done", UnusedId,
                           [params |-> [sessionId |-> sessionId]])
          IN  /\ store' = done.store
              /\ last' = Answered([r EXCEPT !.wrote = done.deleted_count > 0],
                                  2 + done.attempts,
                                  Ok(200, [session_id |-> sessionId,
                                           deleted_count |-> done.deleted_count,
                                           found_count |-> done.found_count]))
    /\ conn' = initialize(conn)
    /\ UNCHANGED <<version, nextId, clock, req, born>>

\* The session runs: one request at a time over a collection that holds,
\* when the process starts, the documents of earlier batches: none or a few
\* of two sessions
StoredBefore ==
    {<<>>, <<BodyX>>, <<BodyX, BodyY>>, <<BodyY, BodyX, BodyX>>}

\* the state after construction over a collection that holds the documents
\* of one of the given batches
InitStored(batches) ==
    /\ version \in {1, 2}
    /\ \E items \in batches :
          LET room == {UnusedId} \cup
                        1..(IF Len(items) < MaxStore THEN MaxStore ELSE Len(items))
          IN  /\ store = [i \in room |->
                            IF i \in DOMAIN items
                            THEN createDocument(version, i, items[i], 0, 0, 0)
                            ELSE NoDoc]
              /\ born = [i \in room |-> NoDoc]
              /\ nextId = Len(items)
    /\ clock = 0
    /\ req = [p \in Procs |-> Idle]
    /\ last = Idle
    /\ conn = Unconnected

NextSession ==
    \/ \E sessionId \in {"s1", "s2"} : DeleteSession(1, sessionId)
    \/ \E q \in PageQueries : GetUser(1, "u1", q)
    \/ \E q \in PageQueries : GetSession(1, "s1", q)
    \/ \E q \in PageQueries : GetQuery(1, q)
    \/ PostBatch(1, BatchOf(<<BodyX>>))

InitSession == InitStored(StoredBefore)

SpecSession == InitSession /\ [][NextSession]_vars

\* The cleanup runs: the same requests, the collection holding when the
\* process starts, at most, one document more of one session than a cleanup
\* reads
StoredLong == StoredBefore \cup {Repeat(BodyX, SessionCleanupLimit + 1)}

InitCleanup == InitStored(StoredLong)

SpecCleanup == InitCleanup /\ [][NextSession]_vars

-----------------------------------------------------------------------------
(* Properties *)

\* the value of field k of the public record of a stored document, as a
\* sequence of length 0 (absent) or 1
Field(doc, k) ==
    IF Has(toRecord(version, doc), k) THEN <<toRecord(version, doc)[k]>> ELSE <<>>

\* the step is the store applying the write of connection p's update
UpdateWrites(p) ==
    /\ req[p].pc \in {"replaceOne", "findOneAndUpdate"}
    /\ req'[p].pc # req[p].pc
    /\ Exists(req[p].id)

\* a failure whose message is the service's not-found message, bare or
\* wrapped by the service's catch block
NotFoundFailure(res) ==
    /\ res.kind \in {"json", "error_handler"}
    /\ res.kind = "json" => ~res.success
    /\ res.error \in {NotFoundMessage,
                      Rethrow("Failed to update chat embedding", NotFoundMessage)}

\* the contract with every field: the schema of the first copy
FullContractKeys == chatEmbeddingSchema(1).keys

\* C1: when the store applies an update, every input field absent from the
\* update request has the same value in the stored record after the write
\* as before it.
C1_OmittedFieldsKept ==
    [][\A p \in Procs :
         UpdateWrites(p) =>
            \A k \in FullContractKeys \ DOMAIN req[p].body :
                Field(store'[req[p].id], k) = Field(store[req[p].id], k)]_vars

\* C2: a store call of an update whose id matches no stored document leaves
\* the store as it was, and the request is answered with a not-found
\* failure.
C2_MissingIdNoWrite ==
    [][\A p \in Procs :
         (/\ req[p].pc \in {"findOne", "replaceOne", "findOneAndUpdate"}
          /\ req'[p].pc # req[p].pc
          /\ ~Exists(req[p].id))
         => /\ store' = store
            /\ last'.op = "update"
            /\ last'.id = req[p].id
            /\ ~last'.wrote
            /\ NotFoundFailure(last'.res)]_vars

\* C2 witness: an update found its document, the document was deleted
\* before the replace reached the store, and the update failed not-found on
\* its second store call.
C2_Witness ==
    /\ last.op = "update"
    /\ last.calls = 2
    /\ ~last.wrote
    /\ NotFoundFailure(last.res)
    /\ born[last.id] # NoDoc
    /\ ~Exists(last.id)

\* C3: a GET, PUT or DELETE that reached the store and found no document
\* under its id is answered 404, success false, 'Chat embedding not found'.
C3_MissingId404 ==
    (/\ last.op \in {"get", "update", "delete"}
     /\ last.calls > 0
     /\ ~last.wrote
     /\ ~Exists(last.id))
    => last.res = [kind |-> "json", status |-> 404, success |-> FALSE,
                   error |-> NotFoundMessage]

\* a query or create body whose primary_embedding is not 768 long
WrongDimension(body) ==
    Has(body, "primary_embedding") /\ body.primary_embedding.len # PrimaryDim

\* a request that fails its schema in one of the ways C4 lists
FailsSchema(r) ==
    \/ /\ r.op = "create"
       /\ \/ WrongDimension(r.body)
          \/ \E k \in chatEmbeddingSchema(version).required : ~Has(r.body, k)
    \/ /\ r.op = "similarity"
       /\ WrongDimension(r.body)

\* C4: a create or similarity request that fails its schema is answered
\* 400 with success false, made no store call, and its step left the store
\* unchanged.
C4_SchemaFailureRejected ==
    [][FailsSchema(last') =>
          /\ last'.res.kind = "json"
          /\ last'.res.status = 400
          /\ ~last'.res.success
          /\ last'.calls = 0
          /\ ~last'.wrote
          /\ store' = store]_vars

\* C4 witness: with a document stored, a create whose vector has 769
\* entries was answered 400 without a store call.
C4_Witness ==
    /\ last.op = "create"
    /\ last.body = BodyBadDim(PrimaryDim + 1)
    /\ last.res.kind = "json"
    /\ last.res.status = 400
    /\ last.calls = 0
    /\ \E id \in Ids : Exists(id)

\* C5: every stored record has the user_id, entry_id and session_id it was
\* created with.
C5_IdentityImmutable ==
    \A id \in Ids :
        Exists(id) =>
            \A k \in IdentityFields :
                Field(store[id], k) = Field(born[id].doc, k)

\* C6: every stored document sits under the id the service assigned, with
\* the created_at written at create; nothing is ever stored under the id a
\* caller put in a body.
C6_IdAndCreatedAtFixed ==
    /\ ~Exists(UnusedId)
    /\ born[UnusedId] = NoDoc
    /\ \A id \in Ids :
          /\ born[id] # NoDoc => born[id].doc["_id"] = id
          /\ Exists(id) =>
                /\ store[id]["_id"] = id
                /\ toRecord(version, store[id]).id = id
                /\ Field(store[id], "created_at") = <<born[id].doc.created_at>>

\* C6 witness: two interleaved updates, whose bodies carry an id and a
\* created_at of the caller's, have both been written over one document at
\* a time later than its creation.
C6_Witness ==
    /\ req[1].pc = "reread"
    /\ req[2].pc = "reread"
    /\ req[1].id = req[2].id
    /\ Has(req[1].body, "id")
    /\ Has(req[2].body, "created_at")
    /\ Exists(req[1].id)
    /\ store[req[1].id].updated_at > born[req[1].id].doc.created_at

\* C7: no step moves the updated_at of a stored document backwards.
C7_UpdatedAtMonotone ==
    [][\A id \in Ids :
         (Exists(id) /\ store'[id] # NoDoc) =>
            store'[id].updated_at >= store[id].updated_at]_vars

\* C8: when a record still as created is replaced with the payload it was
\* created from, created_at stays, updated_at does not go back, and every
\* other field of the record is as before the replace.
C8_ReplaceRoundTrip ==
    [][\A p \in Procs :
         (/\ UpdateWrites(p)
          /\ store[req[p].id] = born[req[p].id].doc
          /\ req[p].body = born[req[p].id].input)
         => LET before == toRecord(version, store[req[p].id])
                after == toRecord(version, store'[req[p].id])
            IN  /\ after.created_at = before.created_at
                /\ after.updated_at >= before.updated_at
                /\ DOMAIN after = DOMAIN before
                /\ \A k \in DOMAIN before \ {"updated_at"} :
                      after[k] = before[k]]_vars

\* C9: a getById of a record still as created returns every field of the
\* full contract that the create input carried, with the input's value.
C9_CreateGetRoundTrip ==
    (/\ last.op = "get"
     /\ last.res.kind = "json"
     /\ last.res.status = 200
     /\ store[last.id] = born[last.id].doc)
    => \A k \in DOMAIN born[last.id].input \cap FullContractKeys :
          /\ Has(last.res.data, k)
          /\ last.res.data[k] = born[last.id].input[k]

\* C10: every document built by create carries one instant as timestamp,
\* created_at and updated_at.
C10_OneCreationInstant ==
    \A id \in Ids :
        born[id] # NoDoc =>
            /\ born[id].doc.timestamp = born[id].doc.created_at
            /\ born[id].doc.created_at = born[id].doc.updated_at

\* C11: when the store applies an update, every input field of the stored
\* document is the one the update request determines: the request's value
\* if the request carries the field, the default of the two defaulted
\* fields, and otherwise no value.
C11_WholeRecordSubstitution ==
    [][\A p \in Procs :
         UpdateWrites(p) =>
            \A k \in FullContractKeys :
                Field(store'[req[p].id], k) =
                    IF Has(req[p].body, k) THEN <<req[p].body[k]>>
                    ELSE IF k = "semantic_tags" THEN << <<>> >>
                    ELSE IF k = "entities_mentioned" THEN <<DefaultEntities>>
                    ELSE <<>>]_vars

\* a failure whose message is the service's not-found message, bare or
\* wrapped by the catch block of the operation named in prefix
NotFoundFrom(res, prefix) ==
    /\ res.kind \in {"json", "error_handler"}
    /\ res.kind = "json" => ~res.success
    /\ res.error \in {NotFoundMessage, Rethrow(prefix, NotFoundMessage)}

\* the documents of a collection
Docs(st) == {i \in DOMAIN st : st[i] # NoDoc}

\* C12: a delete of a stored document removes that document and no other
\* and succeeds; a delete or a getById of an id without a document fails
\* not-found and leaves the store as it was; a deleted document never comes
\* back.
C12_HardDelete ==
    [][/\ last'.op = "delete" =>
            IF Exists(last'.id)
            THEN /\ store' = [store EXCEPT ![last'.id] = NoDoc]
                 /\ last'.res.kind = "json"
                 /\ last'.res.success
                 /\ last'.res.data.deleted
            ELSE /\ store' = store
                 /\ NotFoundFrom(last'.res, "Failed to delete chat embedding")
       /\ (last'.op = "get" /\ ~Exists(last'.id)) =>
            /\ store' = store
            /\ NotFoundFrom(last'.res, "Failed to get chat embedding")
       /\ \A id \in DOMAIN store :
            (born[id] # NoDoc /\ ~Exists(id)) => store'[id] = NoDoc]_vars

\* C12 witness: a document was deleted while another stayed stored, and a
\* second delete of the same id has just failed not-found.
C12_Witness ==
    /\ last.op = "delete"
    /\ born[last.id] # NoDoc
    /\ ~Exists(last.id)
    /\ ~last.wrote
    /\ NotFoundFrom(last.res, "Failed to delete chat embedding")
    /\ \E other \in DOMAIN store : Exists(other)

\* C13: validation accepts a batch of 50 valid items and rejects one of 51;
\* a batch of 0 or of more than 50 items is answered 400 without a store
\* call; a batch of n valid items, 1 <= n <= 50, is answered 201 with
\* inserted_count n and n pairwise distinct identifiers, none of them in
\* use before, and the store gains exactly the n documents.
C13_BatchCounts ==
    [][last'.op = "batch" /\ Has(last'.body, "embeddings") =>
          LET items == last'.body.embeddings
              n == Len(items)
              data == last'.res.data
          IN  /\ (n = 0 \/ n > MaxBatch) =>
                    /\ last'.res.status = 400
                    /\ ~last'.res.success
                    /\ last'.calls = 0
                    /\ store' = store
              /\ (n >= 1 /\ n <= MaxBatch
                    /\ \A a \in 1..n : items[a] \in ValidBodies) =>
                    /\ last'.res.status = 201
                    /\ data.inserted_count = n
                    /\ Len(data.inserted_ids) = n
                    /\ \A a, b \in 1..n :
                          a # b => data.inserted_ids[a] # data.inserted_ids[b]
                    /\ \A a \in 1..n :
                          /\ ~Exists(data.inserted_ids[a])
                          /\ born[data.inserted_ids[a]] = NoDoc
                          /\ data.inserted_ids[a] # UnusedId
                    /\ Docs(store') =
                          Docs(store) \cup {data.inserted_ids[a] : a \in 1..n}
                    /\ \A i \in Docs(store) : store'[i] = store[i]]_vars

\* C13 witness: a batch of 50 valid items has been inserted.
C13_Witness ==
    /\ last.op = "batch"
    /\ last.res.status = 201
    /\ last.res.data.inserted_count = MaxBatch
    /\ Cardinality(Docs(store)) = MaxBatch

\* a batch one item of which has a vector of the wrong dimension or lacks a
\* required field
HasBadItem(r) ==
    /\ r.op = "batch"
    /\ Has(r.body, "embeddings")
    /\ \E a \in DOMAIN r.body.embeddings :
          \/ WrongDimension(r.body.embeddings[a])
          \/ \E k \in chatEmbeddingSchema(version).required :
                ~Has(r.body.embeddings[a], k)

\* C14: a batch with an item that violates the contract is answered 400
\* without a store call, and no document of the batch is inserted.
C14_BatchAllOrNothing ==
    [][HasBadItem(last') =>
          /\ last'.res.kind = "json"
          /\ last'.res.status = 400
          /\ ~last'.res.success
          /\ last'.calls = 0
          /\ store' = store
          /\ nextId' = nextId]_vars

\* C14 witness: a batch whose first item is valid and whose second has 769
\* dimensions was answered 400, with documents of earlier batches stored.
C14_Witness ==
    /\ last.op = "batch"
    /\ last.body = BatchOf(<<BodyX, BodyBadDim(PrimaryDim + 1)>>)
    /\ last.res.status = 400
    /\ Docs(store) # {}

\* C18: statistics is answered 200 and leaves the store as it was; on an
\* empty collection it reports 0 documents, 0 recent documents, no message
\* type and 0 for the average, minimum and maximum processing time.
C18_StatisticsReadOnly ==
    [][last'.op = "stats" =>
          /\ store' = store
          /\ last'.res.kind = "json"
          /\ last'.res.status = 200
          /\ last'.res.success
          /\ Docs(store) = {} =>
                /\ last'.res.data.total_embeddings = 0
                /\ last'.res.data.recent_embeddings_7_days = 0
                /\ DOMAIN last'.res.data.message_type_distribution = {}
                /\ last'.res.data.processing_statistics =
                      [avg_processing_time |-> 0, min_processing_time |-> 0,
                       max_processing_time |-> 0]]_vars

\* C18 witness: statistics answered over a collection emptied by deletes.
C18_Witness ==
    /\ last.op = "stats"
    /\ last.res.status = 200
    /\ last.res.data.total_embeddings = 0
    /\ Docs(store) = {}
    /\ \E id \in DOMAIN born : born[id] # NoDoc

\* C15: a query answered 200 reports current_page = floor(offset/limit) + 1,
\* total_pages = ceil(totalCount/limit), has_next = (offset + limit <
\* totalCount) and has_previous = (offset > 0), where offset and limit are
\* the numbers the request gives (0 and 20 when it gives none) and
\* totalCount is the number of stored documents that match the filter.
C15_Pagination ==
    [][(last'.op = "query" /\ last'.res.kind = "json" /\ last'.res.success) =>
          LET q == last'.body
              offset == ToNumber(queryOffset(q))
              limit == ToNumber(queryLimit(q))
              totalCount ==
                  Cardinality({i \in Docs(store) :
                                  Matches(store[i], queryFilter(q))})
          IN  last'.res.data.pagination =
                 [total_count |-> totalCount,
                  current_page |-> (offset \div limit) + 1,
                  total_pages |-> (totalCount + limit - 1) \div limit,
                  has_next |-> offset + limit < totalCount,
                  has_previous |-> offset > 0]]_vars

\* the largest of a non-empty set of numbers
Largest(S) == CHOOSE x \in S : \A y \in S : y <= x
Smallest(S) == CHOOSE x \in S : \A y \in S : x <= y

\* C16: a similarity search answered 200 returns at most limit results (10
\* when the request gives none), by non-increasing similarity score, with
\* results_count their number; max_similarity_score >= min_similarity_score,
\* they are the largest and the smallest score of the results, and both are
\* 0 when there is no result.
C16_SimilarityBundle ==
    [][(last'.op = "similarity" /\ last'.res.kind = "json" /\ last'.res.success) =>
          LET data == last'.res.data
              results == data.results
              limit == IF Has(last'.body, "limit") THEN last'.body.limit
                       ELSE DefaultSimilarLimit
              scores == {results[a].similarity_score : a \in DOMAIN results}
          IN  /\ Len(results) <= limit
              /\ \A a, b \in DOMAIN results :
                    a < b => results[a].similarity_score
                                >= results[b].similarity_score
              /\ data.results_count = Len(results)
              /\ data.max_similarity_score >= data.min_similarity_score
              /\ IF results = <<>>
                 THEN data.max_similarity_score = 0
                      /\ data.min_similarity_score = 0
                 ELSE data.max_similarity_score = Largest(scores)
                      /\ data.min_similarity_score = Smallest(scores)]_vars

\* C16 witness: a search with limit 2 over three matching records returned
\* two of them, of different scores.
C16_Witness ==
    /\ last.op = "similarity"
    /\ last.body = SearchTop
    /\ last.res.kind = "json"
    /\ last.res.success
    /\ last.res.data.results_count = 2
    /\ Cardinality(Docs(store)) = 3
    /\ last.res.data.max_similarity_score > last.res.data.min_similarity_score

\* C17: connect-and-provision of the collection completes at most once in a
\* run, whatever the interleaving of the requests.
C17_ConnectOnce == conn.provisions <= 1

\* C19: a rejection carries one detail for each violation of the input: the
\* create body with five violations is answered 400 with those five, the
\* same body as an update (no user_id key in that schema) with the four
\* others, and the query with two violations with those two.
C19_AllViolationsReported ==
    [][/\ (last'.op \in {"create", "update"} /\ last'.body = BodyMulti) =>
            /\ last'.res.kind = "json"
            /\ last'.res.status = 400
            /\ last'.res.details =
                  {<<"primary_embedding", "array.length">>,
                   <<"message_type", "any.only">>,
                   <<"emotion_context.intensity", "number.range">>,
                   <<"temporal_context.hour_of_day", "number.range">>}
                  \cup (IF last'.op = "create"
                        THEN {<<"user_id", "any.required">>} ELSE {})
       /\ (last'.op = "query" /\ last'.body = QueryMulti) =>
            /\ last'.res.kind = "json"
            /\ last'.res.status = 400
            /\ last'.res.details =
                  {<<"limit", "number.min">>, <<"sort_order", "any.only">>}]_vars

\* C19 witness: the create body with five violations was answered with five
\* details.
C19_Witness ==
    /\ last.op = "create"
    /\ last.body = BodyMulti
    /\ last.res.kind = "json"
    /\ last.res.status = 400
    /\ Cardinality(last.res.details) = 5

\* the keys of a stored document: the store's and the service's own, and
\* those of the full contract
DocumentKeys ==
    {"_id", "$vector", "timestamp", "created_at", "updated_at"}
        \cup FullContractKeys

\* C20: no stored document has a key that no schema has, at the top level
\* or inside emotion_context, emotion_context.emotions, entities_mentioned
\* or temporal_context.
C20_UnknownFieldsDropped ==
    \A id \in Docs(store) :
        LET doc == store[id] IN
        /\ DOMAIN doc \subseteq DocumentKeys
        /\ Has(doc, "emotion_context") =>
              /\ DOMAIN doc.emotion_context
                    \subseteq {"dominant_emotion", "intensity", "emotions"}
              /\ Has(doc.emotion_context, "emotions") =>
                    DOMAIN doc.emotion_context.emotions \subseteq EmotionNames
        /\ Has(doc, "entities_mentioned") =>
              DOMAIN doc.entities_mentioned
                 \subseteq {"people", "locations", "organizations"}
        /\ Has(doc, "temporal_context") =>
              DOMAIN doc.temporal_context
                 \subseteq {"hour_of_day", "day_of_week", "is_weekend"}

\* C21: the document a create stores has semantic_tags, the three lists of
\* entities_mentioned, each empty unless the request gives it, and, when it
\* has an emotion_context, a score for each of the eight emotions, 0 unless
\* the request gives it.
C21_DefaultsApplied ==
    [][(last'.op = "create" /\ last'.wrote) =>
          LET doc == store'[last'.id]
              body == last'.body
          IN  /\ Has(doc, "semantic_tags")
              /\ ~Has(body, "semantic_tags") => doc.semantic_tags = <<>>
              /\ Has(doc, "entities_mentioned")
              /\ \A k \in {"people", "locations", "organizations"} :
                    /\ Has(doc.entities_mentioned, k)
                    /\ (~Has(body, "entities_mentioned")
                          \/ ~Has(body.entities_mentioned, k)) =>
                             doc.entities_mentioned[k] = <<>>
              /\ Has(doc, "emotion_context") =>
                    \A e \in EmotionNames :
                        /\ Has(doc.emotion_context.emotions, e)
                        /\ ~Has(body.emotion_context.emotions, e) =>
                              doc.emotion_context.emotions[e] = 0]_vars

\* the response reports a failure
Failed(res) ==
    \/ res.kind = "error_handler"
    \/ res.kind = "json" /\ ~res.success

\* C26: an update of the whole-record strategy (findOne, replaceOne,
\* findOne) that is answered with a failure has not written the document.
C26_FailedUpdateWroteNothing ==
    (version = 1 /\ last.op = "update" /\ last.pc = "done" /\ Failed(last.res))
        => ~last.wrote

\* C27: a query answered 200 returns at most pagination.total_count
\* results, and at most limit of them.
C27_ResultsWithinTotal ==
    (last.op = "query" /\ last.pc = "done" /\ last.res.kind = "json"
        /\ last.res.success) =>
        /\ Len(last.res.data.results) <= last.res.data.pagination.total_count
        /\ Len(last.res.data.results) <= ToNumber(queryLimit(last.body))

\* C30: in a statistics response recent_embeddings_7_days is at most
\* total_embeddings, and the counts of message_type_distribution sum to
\* total_embeddings.
C30_StatisticsConsistent ==
    (last.op = "stats" /\ last.pc = "done" /\ last.res.kind = "json"
        /\ last.res.success) =>
        LET data == last.res.data IN
        /\ data.recent_embeddings_7_days <= data.total_embeddings
        /\ SumOver(DOMAIN data.message_type_distribution,
                   data.message_type_distribution) = data.total_embeddings

\* a document satisfies the filter fields that are present in f, and those
\* only (min_intensity apart)
Satisfies(doc, f) ==
    /\ \A k \in {"user_id", "session_id", "message_type"} \cap DOMAIN f :
          doc[k] = f[k]
    /\ (Has(f, "date_range") /\ Has(f.date_range, "start")) =>
          doc.timestamp >= f.date_range.start
    /\ (Has(f, "date_range") /\ Has(f.date_range, "end")) =>
          doc.timestamp <= f.date_range.end
    /\ (Has(f, "emotion_filter") /\ Has(f.emotion_filter, "dominant_emotion")) =>
          /\ Has(doc, "emotion_context")
          /\ doc.emotion_context.dominant_emotion
                = f.emotion_filter.dominant_emotion
    /\ (Has(f, "semantic_tags") /\ f.semantic_tags # <<>>) =>
          Range(doc.semantic_tags) \cap Range(f.semantic_tags) # {}

\* C23: a similarity search (without min_intensity) returns documents that
\* satisfy the filter fields present, as many of them as there are up to
\* limit; a query counts in total_count exactly the documents that satisfy
\* the filter fields present.
C23_FiltersCompose ==
    [][/\ (last'.op = "similarity" /\ last'.res.kind = "json" /\ last'.res.success
             /\ Has(last'.body, "filters")
             /\ ~(Has(last'.body.filters, "emotion_filter")
                    /\ Has(last'.body.filters.emotion_filter, "min_intensity"))) =>
            LET sat == {i \in Docs(store) : Satisfies(store[i], last'.body.filters)}
                results == last'.res.data.results
            IN  /\ \A a \in DOMAIN results : results[a].id \in sat
                /\ Len(results) = IF Cardinality(sat) < DefaultSimilarLimit
                                  THEN Cardinality(sat) ELSE DefaultSimilarLimit
       /\ (last'.op = "query" /\ last'.res.kind = "json" /\ last'.res.success) =>
            last'.res.data.pagination.total_count =
                Cardinality({i \in Docs(store) : Satisfies(store[i], last'.body)})]_vars

\* C24: a similarity search with emotion_filter.min_intensity = m returns
\* only records that have an emotion_context of intensity at least m.
C24_MinIntensityInclusive ==
    [][(last'.op = "similarity" /\ last'.res.kind = "json" /\ last'.res.success
          /\ Has(last'.body, "filters")
          /\ Has(last'.body.filters, "emotion_filter")
          /\ Has(last'.body.filters.emotion_filter, "min_intensity")) =>
          \A a \in DOMAIN last'.res.data.results :
              LET record == last'.res.data.results[a] IN
              /\ Has(record, "emotion_context")
              /\ record.emotion_context.intensity
                    >= last'.body.filters.emotion_filter.min_intensity]_vars

\* the step is a cleanup of a session that answered
CleanupStep ==
    /\ last'.op = "session_delete"
    /\ last'.res.kind = "json"
    /\ last'.res.success

\* C22: a cleanup of a session in which no single delete fails leaves no
\* document of that session in the store, whatever the number of documents
\* of the session.
C22_CleanupEmptiesSession ==
    [][(CleanupStep /\ last'.res.data.deleted_count = last'.res.data.found_count) =>
          \A i \in Docs(store') :
              store'[i].session_id # last'.body.params.sessionId]_vars

\* the documents of session sessionId in store st
InSession(st, sessionId) == {i \in Docs(st) : st[i].session_id = sessionId}

\* C25: a session cleanup is best-effort and itemized: it answers success;
\* found_count is the number of documents it targeted (those of the session,
\* up to the number a cleanup reads); every one of them gets exactly one
\* delete attempt, whether or not an earlier one failed; deleted_count is the
\* number of documents deleted, at most found_count; documents of other
\* sessions stay as they were.
C25_CleanupItemized ==
    [][last'.op = "session_delete" =>
          LET sessionId == last'.body.params.sessionId
              targeted == Cardinality(InSession(store, sessionId))
              data == last'.res.data
          IN  /\ CleanupStep
              /\ last'.res.status = 200
              /\ data.found_count = IF targeted < SessionCleanupLimit
                                    THEN targeted ELSE SessionCleanupLimit
              /\ last'.calls = 2 + data.found_count
              /\ data.deleted_count <= data.found_count
              /\ data.deleted_count = Cardinality(Docs(store) \ Docs(store'))
              /\ Docs(store) \ Docs(store') \subseteq InSession(store, sessionId)
              /\ \A i \in Docs(store') : store'[i] = store[i]]_vars

\* a cleanup that found two documents and deleted one of them
C25_Witness ==
    /\ last.op = "session_delete"
    /\ last.res.data.found_count = 2
    /\ last.res.data.deleted_count = 1

\* the numeric value of URL parameter k of query q, or d when it is not given
UrlNumber(q, k, d) == IF Has(q, k) THEN ToNumber(q[k]) ELSE d

\* the URL query of an answered GET /query, /user/:userId or
\* /session/:sessionId request
UrlQuery(r) == IF r.op = "query" THEN r.body ELSE r.body.query

\* the limit such a request gets when the URL gives none
UrlDefaultLimit(r) ==
    IF r.op = "session" THEN DefaultSessionLimit
    ELSE IF r.op = "user" THEN DefaultUserLimit
    ELSE DefaultQueryLimit

\* the step answers one of the three paginated GET requests with success
PagedStep ==
    /\ last'.op \in {"query", "user", "session"}
    /\ last'.res.kind = "json"
    /\ last'.res.success

\* C28: the pagination of GET /query is computed arithmetically on the
\* numeric values of the URL's limit and offset, as it is for
\* /user/:userId and /session/:sessionId: has_next = (offset + limit <
\* total_count) and current_page = floor(offset / limit) + 1.
C28_QueryPaginationNumeric ==
    [][PagedStep =>
          LET limit == UrlNumber(UrlQuery(last'), "limit", UrlDefaultLimit(last'))
              offset == UrlNumber(UrlQuery(last'), "offset", 0)
              page == last'.res.data.pagination
          IN  /\ page.has_next = (offset + limit < page.total_count)
              /\ page.current_page = (offset \div limit) + 1]_vars

====
